---- MODULE Spec2Model ----
(***************************************************************************)
(* Medicine stock ledger, stock-request workflow, prescription lines and   *)
(* bed allocation of the MRD backend, modelled from the Django models,     *)
(* serializers, views and admin classes.  Every request handler is one     *)
(* action; the database runs in Django's default autocommit mode, so each  *)
(* ORM write is committed on its own unless the handler opens              *)
(* transaction.atomic().                                                   *)
(***************************************************************************)
EXTENDS Integers, Sequences, FiniteSets, TLC

\* ---------------------------------------------------------------------
\* Bounds of the model
\* ---------------------------------------------------------------------
MaxTransactions == 3

MaxRequests == 1

MaxStock == 3

MaxQty == 2

MaxTime == 6

MaxAllocations == 2

\* the last day an expected discharge is extended to
MaxDay == 5

\* minutes the clock of the login and OTP counters runs for
MaxClock == 16

\* calls a login or OTP counter is followed for
MaxCalls == 6

\* ---------------------------------------------------------------------
\* Program constants and value domains
\* ---------------------------------------------------------------------
MinutesPerDay == 1440

five_minutes == 5

NoDate == -1

NoUser == "none"

MedIds == {1, 2}

Treatments == {1, 2}

Users == {"pharmacist", "student"}

TRANSACTION_TYPES == {"received", "issued", "expired", "adjustment"}

STATUS_CHOICES == {"pending", "approved", "ordered", "received", "rejected"}

PRIORITY_CHOICES == {"low", "medium", "high", "urgent"}

BedIds == {1, 2}

Procs == {1, 2}

\* a request in flight: its position, the row it addresses, the quantity it
\* carries, the value it read while validating, and its outcome
Proc(pc, target, quantity, seen, result) ==
  [pc |-> pc, target |-> target, quantity |-> quantity, seen |-> seen, result |-> result]

Idle == Proc("idle", 0, 0, 0, "none")

Max(a, b) == IF a >= b THEN a ELSE b

Abs(a) == IF a >= 0 THEN a ELSE 0 - a

\* ---------------------------------------------------------------------
\* State
\* ---------------------------------------------------------------------
VARIABLES
  medicines,          \* table medicines: id -> row (exists = row present)
  transactions,       \* table medicine_transactions, in insertion order
  stock_requests,     \* table stock_requests, in insertion order
  prescriptions,      \* table treatment_medicines: (treatment, medicine) -> line
  beds,               \* table beds: id -> row
  allocations,        \* table bed_allocations, in insertion order
  procs,              \* requests in flight: position and local variables
  now,                \* wall clock, in minutes
  cache,              \* django.core.cache: key -> entry with its timeout
  accounts,           \* table users: the usernames that exist
  audit,              \* what was asked of the cache-backed limits so far
  last                \* the last request handled and its outcome

stockVars == <<medicines, transactions, stock_requests, prescriptions>>

bedVars == <<beds, allocations>>

authVars == <<cache, accounts, audit>>

vars == <<medicines, transactions, stock_requests, prescriptions,
          beds, allocations, procs, now, cache, accounts, audit, last>>

today == now \div MinutesPerDay

\* rows ----------------------------------------------------------------
NoMedicine ==
  [exists |-> FALSE, current_stock |-> 0, minimum_stock_level |-> 1,
   expiry_date |-> NoDate, batch_number |-> "", is_active |-> FALSE]

NoPrescription ==
  [exists |-> FALSE, quantity |-> 0, stock_deducted |-> FALSE, created_at |-> 0]

MedicineTransaction(m, ttype, qty, req) ==
  [medicine |-> m, transaction_type |-> ttype, quantity |-> qty, request |-> req]

\* an input not recorded with the outcome of a request
NoInput == [kind |-> "none", value |-> 0]

\* The outcome of a request: the operation, its result, the row it
\* addressed and the quantity or id it carried; user and input are filled in
\* by the operations whose properties refer to the caller or to an input.
Outcome(op, result, m, qty) ==
  [op |-> op, result |-> result, medicine |-> m, quantity |-> qty,
   user |-> NoUser, input |-> NoInput]

\* Medicine.is_low_stock / Medicine.stock_status
is_low_stock(med) == med.current_stock <= med.minimum_stock_level

stock_status(med) ==
  IF med.current_stock = 0 THEN "out_of_stock"
  ELSE IF is_low_stock(med) THEN "low_stock"
  ELSE "adequate"

\* MedicineViewSet.get_queryset with ?stock_status=... for a staff user:
\* the rows of the table rows that the filter keeps
StockStatusListing(rows, status) ==
  {m \in DOMAIN rows :
     /\ rows[m].exists
     /\ status = "low_stock" => rows[m].current_stock <= rows[m].minimum_stock_level
     /\ status = "out_of_stock" => rows[m].current_stock = 0
     /\ status = "adequate" => rows[m].current_stock > rows[m].minimum_stock_level}

\* MedicineViewSet.low_stock
low_stock(rows) ==
  {m \in DOMAIN rows :
     /\ rows[m].exists
     /\ rows[m].current_stock <= rows[m].minimum_stock_level
     /\ rows[m].is_active}

\* MedicineViewSet.out_of_stock
out_of_stock(rows) ==
  {m \in DOMAIN rows :
     rows[m].exists /\ rows[m].current_stock = 0 /\ rows[m].is_active}

\* users.permissions
IsPharmacist(u) == u \in {"pharmacist", "admin"}

IsPharmacistOrPatientReadOnly_write(u) == u \in {"pharmacist", "admin"}

\* ---------------------------------------------------------------------
\* Medicine.save: the guard against direct stock changes.  stored is the
\* row in the table, row the instance being saved; the result is the row
\* the table holds afterwards and whether ValidationError was raised.
\* ---------------------------------------------------------------------
MedicineSaveRaisesOnDecrease(stored, row, skip_stock_validation) ==
  /\ stored.exists
  /\ ~skip_stock_validation
  /\ row.current_stock < stored.current_stock

MedicineSaveRaises(stored, row, skip_stock_validation) ==
  /\ stored.exists
  /\ ~skip_stock_validation
  /\ row.current_stock # stored.current_stock

MedicineSave(stored, row, skip_stock_validation) ==
  IF MedicineSaveRaises(stored, row, skip_stock_validation) THEN stored ELSE row

\* The stock effect of a ledger entry (MedicineTransactionSerializer.create,
\* MedicineTransactionAdmin.save_model compute the same value).
ApplyEffect(stock, ttype, qty) ==
  IF ttype = "received" THEN stock + qty
  ELSE IF ttype \in {"issued", "expired", "adjustment"} THEN Max(0, stock - qty)
  ELSE stock

\* ---------------------------------------------------------------------
\* Accounts and the cache: every user exists, the cache is empty
\* ---------------------------------------------------------------------
AllUsers == {"pharmacist", "student", "doctor", "nurse", "admin"}

CacheKeys ==
  {"login_attempts_user", "rate_limit_otp_request_phone",
   "rate_limit_otp_request_email", "otp_email"}

\* a key that is not in the cache
NoEntry == [present |-> FALSE, attempts |-> 0, expiry_time |-> 0, timeout_at |-> 0]

NoAudit == [failed_logins |-> 0, window_closes |-> 0, otps_sent |-> 0, otps_stored |-> 0]

AuthInit ==
  /\ cache = [k \in CacheKeys |-> NoEntry]
  /\ accounts = AllUsers
  /\ audit = NoAudit

\* ---------------------------------------------------------------------
\* Initial state: one medicine imported with stock 0 (import_excel always
\* starts at 0), no ledger, no requests, no prescription lines.
\* ---------------------------------------------------------------------
Init ==
  /\ medicines = [m \in MedIds |->
        IF m = 1
        THEN [exists |-> TRUE, current_stock |-> 0, minimum_stock_level |-> 1,
              expiry_date |-> NoDate, batch_number |-> "", is_active |-> TRUE]
        ELSE NoMedicine]
  /\ transactions = << >>
  /\ stock_requests = << >>
  /\ prescriptions = [k \in Treatments \X MedIds |-> NoPrescription]
  /\ beds = [b \in BedIds |-> [status |-> "available", is_active |-> TRUE]]
  /\ allocations = << >>
  /\ procs = [p \in Procs |-> Idle]
  /\ now = MinutesPerDay
  /\ AuthInit
  /\ last = Outcome("init", "ok", 0, 0)

\* ---------------------------------------------------------------------
\* MedicineViewSet.create with MedicineCreateUpdateSerializer
\* ---------------------------------------------------------------------
MedicineCreate(u, stock, minlvl, expiry) ==
  LET free == {m \in MedIds : ~medicines[m].exists}
      valid == /\ IsPharmacistOrPatientReadOnly_write(u)
               /\ stock >= 0
               /\ minlvl >= 1
               /\ expiry # NoDate
  IN /\ free # {}
     /\ LET m == CHOOSE x \in free : \A y \in free : x <= y
        IN IF valid
           THEN /\ medicines' = [medicines EXCEPT ![m] =
                     [exists |-> TRUE, current_stock |-> stock,
                      minimum_stock_level |-> minlvl, expiry_date |-> expiry,
                      batch_number |-> "", is_active |-> TRUE]]
                /\ last' = Outcome("medicine_create", "ok", m, stock)
           ELSE /\ UNCHANGED medicines
                /\ last' = Outcome("medicine_create", "rejected", 0, stock)
     /\ UNCHANGED <<transactions, stock_requests, prescriptions, now, authVars>>
     /\ UNCHANGED <<beds, allocations, procs>>

\* ---------------------------------------------------------------------
\* MedicineViewSet.update / partial_update: the serializer copies the
\* submitted fields onto the instance and calls Medicine.save()
\* ---------------------------------------------------------------------
MedicineUpdate(u, m, stock, minlvl, active, expiry) ==
  /\ medicines[m].exists
  /\ LET stored == medicines[m]
         row == [stored EXCEPT !.current_stock = stock,
                               !.minimum_stock_level = minlvl,
                               !.is_active = active,
                               !.expiry_date = expiry]
         valid == /\ IsPharmacistOrPatientReadOnly_write(u)
                  /\ stock >= 0
                  /\ minlvl >= 1
                  /\ expiry # NoDate
     IN IF valid
        THEN /\ medicines' = [medicines EXCEPT ![m] = MedicineSave(stored, row, FALSE)]
             /\ last' = Outcome("medicine_update",
                                IF MedicineSaveRaises(stored, row, FALSE)
                                THEN "raised" ELSE "ok", m, stock)
        ELSE /\ UNCHANGED medicines
             /\ last' = Outcome("medicine_update", "rejected", m, stock)
  /\ UNCHANGED <<transactions, stock_requests, prescriptions, now, authVars>>
  /\ UNCHANGED <<beds, allocations, procs>>

\* ---------------------------------------------------------------------
\* MedicineTransactionViewSet.create: MedicineTransactionSerializer
\* validate_quantity, validate and create.  'patient' is a read-only field
\* of the serializer, so the value the caller sends never reaches validate.
\* ---------------------------------------------------------------------
TransactionValidate(med, ttype, qty, supplier, patient_sent) ==
  LET patient == FALSE /\ patient_sent
  IN /\ qty >= 1
     /\ ~(ttype = "received" /\ ~supplier)
     /\ ~(ttype = "issued" /\ ~patient)
     /\ ~(ttype \in {"issued", "expired", "adjustment"} /\ qty > med.current_stock)

TransactionCreate(u, m, ttype, qty, supplier, patient_sent) ==
  /\ medicines[m].exists
  /\ LET med == medicines[m]
         row == [med EXCEPT !.current_stock = ApplyEffect(med.current_stock, ttype, qty)]
     IN IF IsPharmacist(u) /\ TransactionValidate(med, ttype, qty, supplier, patient_sent)
        THEN /\ Len(transactions) < MaxTransactions
             /\ row.current_stock <= MaxStock
             /\ transactions' = Append(transactions, MedicineTransaction(m, ttype, qty, 0))
             /\ medicines' = [medicines EXCEPT ![m] = MedicineSave(med, row, TRUE)]
             /\ last' = Outcome("transaction_create_" \o ttype, "ok", m, qty)
        ELSE /\ UNCHANGED <<medicines, transactions>>
             /\ last' = Outcome("transaction_create_" \o ttype, "rejected", m, qty)
  /\ UNCHANGED <<stock_requests, prescriptions, now, authVars>>
  /\ UNCHANGED <<beds, allocations, procs>>

\* ---------------------------------------------------------------------
\* MedicineTransactionAdmin.save_model.  The add form runs the model
\* validators (quantity >= 1); on add and on change alike the stock effect
\* of the saved row is applied to the medicine.
\* ---------------------------------------------------------------------
AdminTransactionAdd(m, ttype, qty) ==
  /\ medicines[m].exists
  /\ LET med == medicines[m]
         row == [med EXCEPT !.current_stock = ApplyEffect(med.current_stock, ttype, qty)]
     IN IF qty >= 1
        THEN /\ Len(transactions) < MaxTransactions
             /\ row.current_stock <= MaxStock
             /\ transactions' = Append(transactions, MedicineTransaction(m, ttype, qty, 0))
             /\ medicines' = [medicines EXCEPT ![m] = MedicineSave(med, row, TRUE)]
             /\ last' = Outcome("admin_transaction_add_" \o ttype, "ok", m, qty)
        ELSE /\ UNCHANGED <<medicines, transactions>>
             /\ last' = Outcome("admin_transaction_add_" \o ttype, "rejected", m, qty)
  /\ UNCHANGED <<stock_requests, prescriptions, now, authVars>>
  /\ UNCHANGED <<beds, allocations, procs>>

AdminTransactionChange(i) ==
  /\ i \in 1..Len(transactions)
  /\ LET obj == transactions[i]
         med == medicines[obj.medicine]
         row == [med EXCEPT !.current_stock =
                    ApplyEffect(med.current_stock, obj.transaction_type, obj.quantity)]
     IN /\ med.exists
        /\ row.current_stock <= MaxStock
        /\ medicines' = [medicines EXCEPT ![obj.medicine] = MedicineSave(med, row, TRUE)]
        /\ last' = Outcome("admin_transaction_change", "ok", obj.medicine, obj.quantity)
  /\ UNCHANGED <<transactions, stock_requests, prescriptions, now, authVars>>
  /\ UNCHANGED <<beds, allocations, procs>>

\* ---------------------------------------------------------------------
\* MedicineTransactionViewSet is a ModelViewSet: PATCH and DELETE of an
\* entry are routed.  The serializer has no update of its own, so the
\* fields sent are validated and copied onto the row; the row is saved
\* with MedicineTransaction.save, which runs no validation and leaves the
\* medicine alone.  ttype_in = "absent" and qty_sent = FALSE stand for
\* fields not sent; medicine is not sent.
\* ---------------------------------------------------------------------
TransactionUpdateValid(ttype_in, supplier, qty_sent, qty) ==
  LET patient == FALSE
  IN /\ qty_sent => qty >= 1
     /\ ~(ttype_in = "received" /\ ~supplier)
     /\ ~(ttype_in = "issued" /\ ~patient)

TransactionPartialUpdate(u, i, ttype_in, supplier, qty_sent, qty) ==
  /\ i \in 1..Len(transactions)
  /\ IF IsPharmacist(u) /\ TransactionUpdateValid(ttype_in, supplier, qty_sent, qty)
       THEN /\ transactions' = [transactions EXCEPT
                 ![i].transaction_type = IF ttype_in = "absent" THEN @ ELSE ttype_in,
                 ![i].quantity = IF qty_sent THEN qty ELSE @]
            /\ last' = Outcome("transaction_partial_update", "ok",
                               transactions[i].medicine, i)
       ELSE /\ UNCHANGED transactions
            /\ last' = Outcome("transaction_partial_update", "rejected",
                               transactions[i].medicine, i)
  /\ UNCHANGED <<medicines, stock_requests, prescriptions, now, authVars>>
  /\ UNCHANGED <<beds, allocations, procs>>

\* DELETE /api/medicines/{id}/: the default destroy of ModelViewSet.  The
\* delete is refused while a prescription line protects the medicine
\* (on_delete=PROTECT); the ledger entries and stock requests of the
\* medicine go with it (on_delete=CASCADE).
MedicineDestroy(u, m) ==
  LET OfOthers(row) == row.medicine # m
      protected == \E t \in Treatments : prescriptions[<<t, m>>].exists
  IN
  /\ medicines[m].exists
  /\ IF ~IsPharmacistOrPatientReadOnly_write(u)
       THEN /\ last' = Outcome("medicine_destroy", "rejected", m, 0)
            /\ UNCHANGED <<medicines, transactions, stock_requests>>
       ELSE IF protected
         THEN /\ last' = Outcome("medicine_destroy", "raised", m, 0)
              /\ UNCHANGED <<medicines, transactions, stock_requests>>
         ELSE /\ medicines' = [medicines EXCEPT ![m] = NoMedicine]
              /\ transactions' = SelectSeq(transactions, OfOthers)
              /\ stock_requests' = SelectSeq(stock_requests, OfOthers)
              /\ last' = Outcome("medicine_destroy", "ok", m, 0)
  /\ UNCHANGED <<prescriptions, now, authVars>>
  /\ UNCHANGED <<beds, allocations, procs>>

\* the rows of a table without row i
Without(rows, i) ==
  [k \in 1..(Len(rows) - 1) |-> IF k < i THEN rows[k] ELSE rows[k + 1]]

\* DELETE /api/transactions/{id}/: the default destroy of ModelViewSet
TransactionDestroy(u, i) ==
  /\ i \in 1..Len(transactions)
  /\ IF IsPharmacist(u)
       THEN /\ transactions' = Without(transactions, i)
            /\ last' = Outcome("transaction_destroy", "ok", transactions[i].medicine, i)
       ELSE /\ UNCHANGED transactions
            /\ last' = Outcome("transaction_destroy", "rejected",
                               transactions[i].medicine, i)
  /\ UNCHANGED <<medicines, stock_requests, prescriptions, now, authVars>>
  /\ UNCHANGED <<beds, allocations, procs>>

\* MedicineTransactionAdmin: the delete view of ModelAdmin is not disabled
AdminTransactionDelete(i) ==
  /\ i \in 1..Len(transactions)
  /\ transactions' = Without(transactions, i)
  /\ last' = Outcome("admin_transaction_delete", "ok", transactions[i].medicine, i)
  /\ UNCHANGED <<medicines, stock_requests, prescriptions, now, authVars>>
  /\ UNCHANGED <<beds, allocations, procs>>

\* ---------------------------------------------------------------------
\* MedicineViewSet.adjust_stock.  new_stock is absent, not an integer, or
\* an integer.
\* ---------------------------------------------------------------------
adjust_stock(u, m, kind, new_stock) ==
  /\ medicines[m].exists
  /\ LET med == medicines[m]
         quantity_diff == Abs(med.current_stock - new_stock)
         transaction_type == IF new_stock > med.current_stock
                             THEN "received" ELSE "adjustment"
         row == [med EXCEPT !.current_stock = new_stock]
     IN IF /\ IsPharmacistOrPatientReadOnly_write(u)
           /\ kind = "int"
           /\ new_stock >= 0
        THEN /\ Len(transactions) < MaxTransactions
             /\ transactions' = Append(transactions,
                    MedicineTransaction(m, transaction_type, quantity_diff, 0))
             /\ medicines' = [medicines EXCEPT ![m] = MedicineSave(med, row, TRUE)]
             /\ last' = Outcome("adjust_stock", "ok", m, new_stock)
        ELSE /\ UNCHANGED <<medicines, transactions>>
             /\ last' = Outcome("adjust_stock", "rejected", m, new_stock)
  /\ UNCHANGED <<stock_requests, prescriptions, now, authVars>>
  /\ UNCHANGED <<beds, allocations, procs>>

\* ---------------------------------------------------------------------
\* TreatmentViewSet.prescribe_medicine with TreatmentMedicineSerializer and
\* TreatmentMedicine.save.  The quantity field has no validator; the
\* serializer checks the stock only for a non-zero quantity.
\* ---------------------------------------------------------------------
TreatmentMedicineValidate(med, quantity) ==
  ~(quantity # 0 /\ med.current_stock < quantity)

\* the branch for a medicine not yet prescribed in the treatment
PrescribeNew(t, m, quantity) ==
  LET med == medicines[m]
      row == [med EXCEPT !.current_stock = med.current_stock - quantity]
  IN IF med.current_stock < quantity
     THEN /\ UNCHANGED <<medicines, transactions, prescriptions>>
          /\ last' = Outcome("prescribe_medicine", "rejected", m, quantity)
     ELSE /\ Len(transactions) < MaxTransactions
          /\ row.current_stock <= MaxStock
          /\ medicines' = [medicines EXCEPT ![m] = MedicineSave(med, row, TRUE)]
          /\ transactions' = Append(transactions,
                                    MedicineTransaction(m, "issued", quantity, 0))
          /\ prescriptions' = [prescriptions EXCEPT ![<<t, m>>] =
                [exists |-> TRUE, quantity |-> quantity,
                 stock_deducted |-> TRUE, created_at |-> now]]
          /\ last' = Outcome("prescribe_medicine", "ok", m, quantity)

\* the branch for a medicine already prescribed: restore the old quantity,
\* deduct the new one, each with a plain medicine.save()
PrescribeExisting(t, m, new_quantity) ==
  LET stored == medicines[m]
      old_quantity == prescriptions[<<t, m>>].quantity
      mem1 == [stored EXCEPT !.current_stock = stored.current_stock + old_quantity]
      raise1 == MedicineSaveRaises(stored, mem1, FALSE)
      db1 == MedicineSave(stored, mem1, FALSE)
      mem2 == [mem1 EXCEPT !.current_stock = mem1.current_stock - new_quantity]
      raise2 == MedicineSaveRaises(db1, mem2, FALSE)
      db2 == MedicineSave(db1, mem2, FALSE)
      restored == IF old_quantity > 0
                  THEN <<MedicineTransaction(m, "adjustment", old_quantity, 0)>>
                  ELSE << >>
      issued == IF new_quantity > 0
                THEN <<MedicineTransaction(m, "issued", new_quantity, 0)>>
                ELSE << >>
  IN IF raise1
     THEN /\ UNCHANGED <<medicines, transactions, prescriptions>>
          /\ last' = Outcome("prescribe_medicine_update", "raised", m, new_quantity)
     ELSE IF mem1.current_stock < new_quantity \/ raise2
     THEN /\ medicines' = [medicines EXCEPT ![m] = db1]
          /\ UNCHANGED <<transactions, prescriptions>>
          /\ last' = Outcome("prescribe_medicine_update",
                             IF mem1.current_stock < new_quantity
                             THEN "rejected" ELSE "raised", m, new_quantity)
     ELSE /\ Len(transactions) + Len(restored) + Len(issued) <= MaxTransactions
          /\ db2.current_stock <= MaxStock
          /\ medicines' = [medicines EXCEPT ![m] = db2]
          /\ transactions' = transactions \o restored \o issued
          /\ prescriptions' = [prescriptions EXCEPT ![<<t, m>>].quantity = new_quantity]
          /\ last' = Outcome("prescribe_medicine_update", "ok", m, new_quantity)

prescribe_medicine(t, m, quantity) ==
  /\ medicines[m].exists
  /\ IF ~TreatmentMedicineValidate(medicines[m], quantity)
     THEN /\ UNCHANGED <<medicines, transactions, prescriptions>>
          /\ last' = Outcome(IF prescriptions[<<t, m>>].exists
                             THEN "prescribe_medicine_update"
                             ELSE "prescribe_medicine", "rejected", m, quantity)
     ELSE IF prescriptions[<<t, m>>].exists
     THEN PrescribeExisting(t, m, quantity)
     ELSE PrescribeNew(t, m, quantity)
  /\ UNCHANGED <<stock_requests, now, authVars>>
  /\ UNCHANGED <<beds, allocations, procs>>

\* ---------------------------------------------------------------------
\* TreatmentViewSet.remove_medicine and TreatmentMedicine.delete
\* ---------------------------------------------------------------------
\* A variant of the grace-period test that excludes the boundary; the
\* removal property is shown to depend on the difference.
WithinGraceStrict(time_elapsed) == time_elapsed < five_minutes

\* TreatmentMedicine.delete: time_elapsed <= five_minutes
WithinGrace(time_elapsed) == time_elapsed <= five_minutes

remove_medicine(t, m) ==
  /\ IF ~prescriptions[<<t, m>>].exists
     THEN /\ UNCHANGED <<medicines, transactions, prescriptions>>
          /\ last' = Outcome("remove_medicine", "rejected", m, 0)
     ELSE LET line == prescriptions[<<t, m>>]
              med == medicines[m]
              time_elapsed == now - line.created_at
              row == [med EXCEPT !.current_stock = med.current_stock + line.quantity]
          IN /\ IF line.stock_deducted
                THEN /\ Len(transactions) < MaxTransactions
                     /\ IF WithinGrace(time_elapsed)
                        THEN /\ row.current_stock <= MaxStock
                             /\ medicines' = [medicines EXCEPT ![m] =
                                                MedicineSave(med, row, TRUE)]
                             /\ transactions' = Append(transactions,
                                  MedicineTransaction(m, "adjustment", line.quantity, 0))
                        ELSE /\ UNCHANGED medicines
                             /\ transactions' = Append(transactions,
                                  MedicineTransaction(m, "issued", 0, 0))
                ELSE UNCHANGED <<medicines, transactions>>
             /\ prescriptions' = [prescriptions EXCEPT ![<<t, m>>] = NoPrescription]
             /\ last' = Outcome("remove_medicine", "ok", m, line.quantity)
  /\ UNCHANGED <<stock_requests, now, authVars>>
  /\ UNCHANGED <<beds, allocations, procs>>

\* ---------------------------------------------------------------------
\* Stock requests.  StockRequestViewSet is a ModelViewSet over
\* StockRequestSerializer, in which status is a writable field.
\* ---------------------------------------------------------------------
StockRequest(m, qty, snapshot, priority, status, requested_by) ==
  [medicine |-> m, requested_quantity |-> qty, current_stock |-> snapshot,
   priority |-> priority, status |-> status, requested_by |-> requested_by,
   approved_by |-> NoUser, approved_date |-> NoDate, notes |-> ""]

RequestIds == 1..Len(stock_requests)

\* StockRequestViewSet.get_queryset: pharmacists see every request, other
\* users only their own
Visible(u, r) ==
  /\ r \in RequestIds
  /\ u = "pharmacist" \/ stock_requests[r].requested_by = u

\* A variant of the derived priority that takes a medicine exactly at its
\* minimum level as adequately stocked; the property of derived priorities
\* is shown to depend on the difference.
AutoPriorityStrict(med, priority_in) ==
  IF priority_in = "absent"
  THEN IF med.current_stock = 0 THEN "urgent"
       ELSE IF med.current_stock < med.minimum_stock_level THEN "high"
       ELSE "medium"
  ELSE priority_in

\* StockRequestSerializer.validate: the priority derived from the stock
\* level when the caller sent none
AutoPriority(med, priority_in) ==
  IF priority_in = "absent"
  THEN IF med.current_stock = 0 THEN "urgent"
       ELSE IF is_low_stock(med) THEN "high"
       ELSE "medium"
  ELSE priority_in

\* StockRequestViewSet.create with StockRequestSerializer.create
submit(u, m, qty, priority_in, status_in) ==
  /\ medicines[m].exists
  /\ IF qty >= 1
     THEN /\ Len(stock_requests) < MaxRequests
          /\ stock_requests' = Append(stock_requests,
                StockRequest(m, qty, medicines[m].current_stock,
                             AutoPriority(medicines[m], priority_in),
                             IF status_in = "absent" THEN "pending" ELSE status_in, u))
          /\ last' = [Outcome("submit", "ok", m, qty) EXCEPT
                         !.input = [kind |-> priority_in, value |-> 0]]
     ELSE /\ UNCHANGED stock_requests
          /\ last' = [Outcome("submit", "rejected", m, qty) EXCEPT
                         !.input = [kind |-> priority_in, value |-> 0]]
  /\ UNCHANGED <<medicines, transactions, prescriptions, now, authVars>>
  /\ UNCHANGED <<beds, allocations, procs>>

\* StockRequestViewSet.partial_update with {status: ...}
RequestPartialUpdate(u, r, status_in) ==
  /\ r \in RequestIds
  /\ IF Visible(u, r)
     THEN /\ stock_requests' = [stock_requests EXCEPT ![r].status = status_in]
          /\ last' = Outcome("request_partial_update", "ok",
                             stock_requests[r].medicine, r)
     ELSE /\ UNCHANGED stock_requests
          /\ last' = Outcome("request_partial_update", "rejected",
                             stock_requests[r].medicine, r)
  /\ UNCHANGED <<medicines, transactions, prescriptions, now, authVars>>
  /\ UNCHANGED <<beds, allocations, procs>>

\* request.data['expiry_date'] of approve: absent, not a date, a date
ExpiryInputs ==
  {[kind |-> "absent", value |-> NoDate], [kind |-> "invalid", value |-> NoDate]}
    \cup {[kind |-> "date", value |-> d] : d \in 0..2}

\* A variant of the validation of approve that accepts any date; the
\* property of failed approvals is shown to depend on the difference.
ApproveValidAnyDate(u, r, expiry) ==
  /\ Visible(u, r)
  /\ stock_requests[r].status = "pending"
  /\ expiry.kind = "date"

\* the validation of StockRequestViewSet.approve
ApproveValid(u, r, expiry) ==
  /\ Visible(u, r)
  /\ stock_requests[r].status = "pending"
  /\ expiry.kind = "date"
  /\ ~(expiry.value < today)

\* StockRequestViewSet.approve: four writes, each committed on its own
approve(u, r, expiry, batch_number) ==
  /\ r \in RequestIds
  /\ LET req == stock_requests[r]
         m == req.medicine
         med == medicines[m]
         quantity == req.requested_quantity
         row == [med EXCEPT !.current_stock = med.current_stock + quantity,
                            !.expiry_date = expiry.value,
                            !.batch_number = IF batch_number # ""
                                             THEN batch_number
                                             ELSE med.batch_number]
     IN IF ApproveValid(u, r, expiry)
        THEN /\ Len(transactions) < MaxTransactions
             /\ row.current_stock <= MaxStock
             /\ stock_requests' = [stock_requests EXCEPT
                    ![r].status = "approved",
                    ![r].approved_by = u,
                    ![r].approved_date = now]
             /\ transactions' = Append(transactions,
                    MedicineTransaction(m, "received", quantity, r))
             /\ medicines' = [medicines EXCEPT ![m] = MedicineSave(med, row, TRUE)]
             /\ last' = [Outcome("approve", "ok", m, r) EXCEPT !.input = expiry]
        ELSE /\ UNCHANGED <<medicines, transactions, stock_requests>>
             /\ last' = [Outcome("approve", "rejected", m, r) EXCEPT !.input = expiry]
  /\ UNCHANGED <<prescriptions, now, authVars>>
  /\ UNCHANGED <<beds, allocations, procs>>

\* A variant of the validation of reject that ignores the status; the
\* property of reject is shown to depend on the difference.
RejectValidAnyStatus(u, r) == Visible(u, r)

\* the validation of StockRequestViewSet.reject
RejectValid(u, r) ==
  /\ Visible(u, r)
  /\ stock_requests[r].status = "pending"

\* StockRequestViewSet.reject; reason_in = "absent" stands for a request
\* without a reason
reject(u, r, reason_in) ==
  /\ r \in RequestIds
  /\ IF RejectValid(u, r)
     THEN /\ stock_requests' = [stock_requests EXCEPT
                    ![r].status = "rejected",
                    ![r].approved_by = u,
                    ![r].approved_date = now,
                    ![r].notes = IF reason_in = "absent"
                                 THEN "Request rejected" ELSE reason_in]
          /\ last' = [Outcome("reject", "ok", stock_requests[r].medicine, r) EXCEPT
                         !.user = u, !.input = [kind |-> reason_in, value |-> 0]]
     ELSE /\ UNCHANGED stock_requests
          /\ last' = [Outcome("reject", "rejected", stock_requests[r].medicine, r) EXCEPT
                         !.user = u, !.input = [kind |-> reason_in, value |-> 0]]
  /\ UNCHANGED <<medicines, transactions, prescriptions, now, authVars>>
  /\ UNCHANGED <<beds, allocations, procs>>

\* StockRequestAdmin.approve_requests: a queryset update of the pending rows
admin_approve_requests(r) ==
  /\ r \in RequestIds
  /\ stock_requests[r].status = "pending"
  /\ stock_requests' = [stock_requests EXCEPT
         ![r].status = "approved",
         ![r].approved_by = "admin",
         ![r].approved_date = now]
  /\ last' = Outcome("admin_approve_requests", "ok", stock_requests[r].medicine, r)
  /\ UNCHANGED <<medicines, transactions, prescriptions, now, authVars>>
  /\ UNCHANGED <<beds, allocations, procs>>

\* StockRequestAdmin.mark_as_ordered
admin_mark_as_ordered(r) ==
  /\ r \in RequestIds
  /\ stock_requests[r].status = "approved"
  /\ stock_requests' = [stock_requests EXCEPT ![r].status = "ordered"]
  /\ last' = Outcome("admin_mark_as_ordered", "ok", stock_requests[r].medicine, r)
  /\ UNCHANGED <<medicines, transactions, prescriptions, now, authVars>>
  /\ UNCHANGED <<beds, allocations, procs>>

\* StockRequestAdmin.save_model on a change of the status field
AdminRequestChange(r, status_in) ==
  /\ r \in RequestIds
  /\ status_in # stock_requests[r].status
  /\ LET stamp == status_in \in {"approved", "rejected"}
                    /\ stock_requests[r].approved_by = NoUser
     IN stock_requests' = [stock_requests EXCEPT
          ![r].status = status_in,
          ![r].approved_by = IF stamp THEN "admin" ELSE @,
          ![r].approved_date = IF stamp THEN now ELSE @]
  /\ last' = Outcome("admin_request_change", "ok", stock_requests[r].medicine, r)
  /\ UNCHANGED <<medicines, transactions, prescriptions, now, authVars>>
  /\ UNCHANGED <<beds, allocations, procs>>

\* ---------------------------------------------------------------------
\* The clock: time passes in steps of five or six minutes
\* ---------------------------------------------------------------------
Tick(d) ==
  /\ now + d <= MinutesPerDay + MaxTime
  /\ now' = now + d
  /\ UNCHANGED authVars
  /\ last' = Outcome("tick", "ok", 0, d)
  /\ UNCHANGED <<medicines, transactions, stock_requests, prescriptions>>
  /\ UNCHANGED <<beds, allocations, procs>>

\* request.data['new_stock'] of adjust_stock: absent, not a number, a number
NewStockInputs ==
  {[kind |-> "absent", value |-> 0], [kind |-> "invalid", value |-> 0]}
    \cup {[kind |-> "int", value |-> v] : v \in -1..MaxStock}

\* ---------------------------------------------------------------------
\* Beds and bed allocations
\* ---------------------------------------------------------------------
\* user types that reach the bed endpoints in this model
BedUsers == {"doctor", "student"}

\* users.permissions.IsMedicalStaff (accounts are approved)
IsMedicalStaff(u) == u \in {"doctor", "nurse", "admin"}

\* Bed.is_available
is_available(bed) == bed.status = "available" /\ bed.is_active

NoAllocation ==
  [exists |-> FALSE, bed |-> 0, is_active |-> FALSE, actual_discharge_date |-> NoDate,
   admission_date |-> 0, expected_discharge_date |-> NoDate, allocated_by |-> NoUser]

\* a new BedAllocation: is_active defaults to True, no discharge date;
\* admission_date is a time in minutes, expected_discharge_date a day
BedAllocationRow(b, admission_date, expected_discharge_date, allocated_by) ==
  [exists |-> TRUE, bed |-> b, is_active |-> TRUE, actual_discharge_date |-> NoDate,
   admission_date |-> admission_date,
   expected_discharge_date |-> expected_discharge_date,
   allocated_by |-> allocated_by]

\* the allocation a doctor makes for a patient admitted now, with no
\* expected discharge date
BedAllocation(b) == BedAllocationRow(b, now, NoDate, "doctor")

\* a field the request does not carry
NotSent == -2

\* BedAllocation.attending_doctor: every allocation of the model is
\* attended by the one doctor account
attending_doctor == "doctor"

\* BedAllocationSerializer.validate and BedAllocationCreateSerializer.validate:
\* TRUE when the dates are rejected; the comparison is made only when both
\* dates are among the fields sent
DatesRejected(admission_in, expected_in) ==
  /\ admission_in # NotSent
  /\ expected_in \notin {NotSent, NoDate}
  /\ expected_in < admission_in \div MinutesPerDay

\* BedAllocation.duration_days
duration_days(row) ==
  IF row.actual_discharge_date # NoDate
  THEN row.actual_discharge_date \div MinutesPerDay - row.admission_date \div MinutesPerDay
  ELSE today - row.admission_date \div MinutesPerDay

AllocationIds == 1..Len(allocations)

\* BedAllocation.objects.filter(bed=b, is_active=True).exclude(pk=pk);
\* pk = 0 stands for an instance not yet saved
ActiveOn(rows, b, pk) ==
  {i \in 1..Len(rows) : rows[i].exists /\ rows[i].bed = b /\ rows[i].is_active /\ i # pk}

\* A variant of BedAllocation.clean that checks only instances not yet
\* saved; the exclusivity property is shown to depend on the difference.
cleanNewOnly(rows, row, pk) ==
  pk = 0 /\ row.is_active /\ ActiveOn(rows, row.bed, pk) # {}

\* BedAllocation.clean: TRUE when it raises ValidationError
clean(rows, row, pk) ==
  row.is_active /\ ActiveOn(rows, row.bed, pk) # {}

\* A variant of BedAllocation.save that leaves the bed status alone when
\* an allocation is reactivated; the reactivation property is shown to
\* depend on the difference.
BedAllocationSaveNoReoccupy(bs, rows, row, pk) ==
  LET is_new == pk = 0
      saved == IF is_new THEN Append(rows, row) ELSE [rows EXCEPT ![pk] = row]
      me == IF is_new THEN Len(saved) ELSE pk
      changed == ~is_new /\ rows[pk].is_active # row.is_active
  IN IF clean(rows, row, pk)
       THEN [raised |-> TRUE, beds |-> bs, allocations |-> rows]
       ELSE [raised |-> FALSE,
             allocations |-> saved,
             beds |->
               IF is_new /\ row.is_active
                 THEN [bs EXCEPT ![row.bed].status = "occupied"]
               ELSE IF changed /\ ~row.is_active
                 THEN IF ActiveOn(saved, row.bed, me) = {}
                        THEN [bs EXCEPT ![row.bed].status = "available"]
                        ELSE bs
               ELSE bs]

\* BedAllocation.save on top of the bed table bs and the allocation table
\* rows: full_clean, the row write, then the bed status update
BedAllocationSave(bs, rows, row, pk) ==
  LET is_new == pk = 0
      saved == IF is_new THEN Append(rows, row) ELSE [rows EXCEPT ![pk] = row]
      me == IF is_new THEN Len(saved) ELSE pk
      changed == ~is_new /\ rows[pk].is_active # row.is_active
  IN IF clean(rows, row, pk)
       THEN [raised |-> TRUE, beds |-> bs, allocations |-> rows]
       ELSE [raised |-> FALSE,
             allocations |-> saved,
             beds |->
               IF is_new /\ row.is_active
                 THEN [bs EXCEPT ![row.bed].status = "occupied"]
               ELSE IF changed /\ ~row.is_active
                 THEN IF ActiveOn(saved, row.bed, me) = {}
                        THEN [bs EXCEPT ![row.bed].status = "available"]
                        ELSE bs
               ELSE IF changed
                 THEN [bs EXCEPT ![row.bed].status = "occupied"]
               ELSE bs]

\* POST /api/bed-allocations/: BedAllocationViewSet.create with
\* BedAllocationCreateSerializer
AllocationCreate(u, b, admission_date, expected_discharge_date) ==
  LET occupied == [beds EXCEPT ![b].status = "occupied"]
      r == BedAllocationSave(occupied, allocations,
             BedAllocationRow(b, admission_date, expected_discharge_date, u), 0)
  IN
  /\ IF \/ u \notin accounts
        \/ attending_doctor \notin accounts
        \/ ~(u \in {"doctor", "nurse", "admin"})
        \/ ~is_available(beds[b])
        \/ DatesRejected(admission_date, expected_discharge_date)
       THEN /\ last' = Outcome("allocation_create", "rejected", b, 0)
            /\ UNCHANGED bedVars
       ELSE IF r.raised
         THEN /\ beds' = occupied
              /\ last' = Outcome("allocation_create", "raised", b, 0)
              /\ UNCHANGED allocations
         ELSE /\ Len(allocations) < MaxAllocations
              /\ beds' = r.beds
              /\ allocations' = r.allocations
              /\ last' = Outcome("allocation_create", "ok", b, 0)
  /\ UNCHANGED <<stockVars, procs, now, authVars>>

\* POST /api/bed-allocations/{id}/discharge/ with BedDischargeSerializer
discharge(u, a, date_in) ==
  LET old == allocations[a]
      freed == [beds EXCEPT ![old.bed].status = "available"]
      row == [old EXCEPT !.is_active = FALSE,
                         !.actual_discharge_date = IF date_in = NoDate THEN now ELSE date_in]
      r == BedAllocationSave(freed, allocations, row, a)
  IN
  /\ a \in AllocationIds
  /\ allocations[a].exists
  /\ IF ~old.is_active
       THEN /\ last' = Outcome("discharge", "rejected", old.bed, a)
            /\ UNCHANGED bedVars
       ELSE /\ beds' = r.beds
            /\ allocations' = r.allocations
            /\ last' = Outcome("discharge", "ok", old.bed, a)
  /\ UNCHANGED <<stockVars, procs, now, authVars>>

\* PUT/PATCH /api/bed-allocations/{id}/ with BedAllocationSerializer;
\* bed_in = 0, is_active_in = "absent" and a date of NotSent stand for
\* fields not sent
AllocationUpdate(u, a, bed_in, is_active_in, admission_in, expected_in) ==
  LET old == allocations[a]
      discharging == is_active_in = "false"
      freed == IF discharging
                 THEN [beds EXCEPT ![old.bed].status = "available"]
                 ELSE beds
      row == [old EXCEPT
                !.bed = IF bed_in = 0 THEN @ ELSE bed_in,
                !.is_active = IF is_active_in = "absent" THEN @ ELSE is_active_in = "true",
                !.actual_discharge_date = IF discharging /\ @ = NoDate THEN now ELSE @,
                !.admission_date = IF admission_in = NotSent THEN @ ELSE admission_in,
                !.expected_discharge_date = IF expected_in = NotSent THEN @ ELSE expected_in]
      r == BedAllocationSave(freed, allocations, row, a)
  IN
  /\ a \in AllocationIds
  /\ allocations[a].exists
  /\ IF ~IsMedicalStaff(u) \/ DatesRejected(admission_in, expected_in)
       THEN /\ last' = [Outcome("allocation_update", "rejected", old.bed, a) EXCEPT
                  !.user = u, !.input = [kind |-> is_active_in, value |-> bed_in]]
            /\ UNCHANGED bedVars
       ELSE IF r.raised
         THEN /\ beds' = freed
              /\ last' = [Outcome("allocation_update", "raised", row.bed, a) EXCEPT
                  !.user = u, !.input = [kind |-> is_active_in, value |-> bed_in]]
              /\ UNCHANGED allocations
         ELSE /\ beds' = r.beds
              /\ allocations' = r.allocations
              /\ last' = [Outcome("allocation_update", "ok", row.bed, a) EXCEPT
                  !.user = u, !.input = [kind |-> is_active_in, value |-> bed_in]]
  /\ UNCHANGED <<stockVars, procs, now, authVars>>

\* DELETE /api/bed-allocations/{id}/: the default destroy of ModelViewSet
AllocationDestroy(u, a) ==
  /\ a \in AllocationIds
  /\ allocations[a].exists
  /\ IF ~IsMedicalStaff(u)
       THEN /\ last' = Outcome("allocation_destroy", "rejected", allocations[a].bed, a)
            /\ UNCHANGED bedVars
       ELSE /\ allocations' = [allocations EXCEPT ![a] = NoAllocation]
            /\ last' = Outcome("allocation_destroy", "ok", allocations[a].bed, a)
            /\ UNCHANGED beds
  /\ UNCHANGED <<stockVars, procs, now, authVars>>

\* PUT/PATCH /api/beds/{id}/ with BedCreateUpdateSerializer: status is not
\* a field of the serializer, is_active is
BedUpdate(u, b, is_active_in) ==
  /\ IF ~IsMedicalStaff(u)
       THEN /\ last' = Outcome("bed_update", "rejected", b, 0)
            /\ UNCHANGED beds
       ELSE /\ beds' = [beds EXCEPT ![b].is_active = is_active_in]
            /\ last' = Outcome("bed_update", "ok", b, 0)
  /\ UNCHANGED <<stockVars, allocations, procs, now, authVars>>

\* BedAllocationAdmin add form: the form runs the model's clean before
\* save_model, which records the staff user u logged in to the admin site
AdminAllocationAdd(u, b) ==
  LET occupied == [beds EXCEPT ![b].status = "occupied"]
      r == BedAllocationSave(occupied, allocations,
             BedAllocationRow(b, now, NoDate, u), 0)
  IN
  /\ IF r.raised
       THEN /\ last' = Outcome("admin_allocation_add", "rejected", b, 0)
            /\ UNCHANGED bedVars
       ELSE /\ Len(allocations) < MaxAllocations
            /\ beds' = r.beds
            /\ allocations' = r.allocations
            /\ last' = Outcome("admin_allocation_add", "ok", b, 0)
  /\ UNCHANGED <<stockVars, procs, now, authVars>>

\* BedAllocationAdmin change form and save_model
AdminAllocationChange(a, is_active_in) ==
  LET old == allocations[a]
      discharging == old.is_active /\ ~is_active_in
      freed == IF discharging
                 THEN [beds EXCEPT ![old.bed].status = "available"]
                 ELSE beds
      row == [old EXCEPT
                !.is_active = is_active_in,
                !.actual_discharge_date = IF discharging /\ @ = NoDate THEN now ELSE @]
      r == BedAllocationSave(freed, allocations, row, a)
  IN
  /\ a \in AllocationIds
  /\ allocations[a].exists
  /\ IF r.raised
       THEN /\ last' = Outcome("admin_allocation_change", "rejected", old.bed, a)
            /\ UNCHANGED bedVars
       ELSE /\ beds' = r.beds
            /\ allocations' = r.allocations
            /\ last' = Outcome("admin_allocation_change", "ok", old.bed, a)
  /\ UNCHANGED <<stockVars, procs, now, authVars>>

\* BedAllocationAdmin.discharge_patients on one selected allocation
discharge_patients(a) ==
  LET old == allocations[a]
      row == [old EXCEPT !.is_active = FALSE, !.actual_discharge_date = now]
      r == BedAllocationSave(beds, allocations, row, a)
  IN
  /\ a \in AllocationIds
  /\ old.exists
  /\ old.is_active
  /\ allocations' = r.allocations
  /\ beds' = [r.beds EXCEPT ![old.bed].status = "available"]
  /\ last' = Outcome("discharge_patients", "ok", old.bed, a)
  /\ UNCHANGED <<stockVars, procs, now, authVars>>

\* DELETE /api/users/{id}/: the default destroy of ModelViewSet, open to
\* admins.  Allocations attended by the user are deleted with the account
\* (on_delete=CASCADE); allocations made by the user and stock requests
\* made or approved by the user stay with the reference set to NULL
\* (on_delete=SET_NULL).
UserDestroy(u, target) ==
  LET Detached(row) ==
        IF ~row.exists \/ target = attending_doctor THEN NoAllocation
        ELSE IF row.allocated_by = target THEN [row EXCEPT !.allocated_by = NoUser]
        ELSE row
      Unsigned(req) ==
        [req EXCEPT
           !.requested_by = IF @ = target THEN NoUser ELSE @,
           !.approved_by = IF @ = target THEN NoUser ELSE @]
  IN
  /\ target \in accounts
  /\ IF u \in accounts /\ u = "admin"
       THEN /\ accounts' = accounts \ {target}
            /\ allocations' = [a \in AllocationIds |-> Detached(allocations[a])]
            /\ stock_requests' = [r \in RequestIds |-> Unsigned(stock_requests[r])]
            /\ last' = [Outcome("user_destroy", "ok", 0, 0) EXCEPT !.user = u]
       ELSE /\ UNCHANGED <<accounts, allocations, stock_requests>>
            /\ last' = [Outcome("user_destroy", "rejected", 0, 0) EXCEPT !.user = u]
  /\ UNCHANGED <<medicines, transactions, prescriptions, beds, procs, now, cache, audit>>

\* BedAllocationAdmin.extend_stay on one selected allocation: three days
\* more for an active allocation that has an expected discharge date
extend_stay(a) ==
  LET old == allocations[a]
      row == [old EXCEPT !.expected_discharge_date = @ + 3]
      r == BedAllocationSave(beds, allocations, row, a)
  IN
  /\ a \in AllocationIds
  /\ old.exists
  /\ old.is_active
  /\ old.expected_discharge_date # NoDate
  /\ old.expected_discharge_date + 3 <= MaxDay
  /\ ~r.raised
  /\ allocations' = r.allocations
  /\ beds' = r.beds
  /\ last' = Outcome("extend_stay", "ok", old.bed, a)
  /\ UNCHANGED <<stockVars, procs, now, authVars>>

\* BedAdmin.make_available on one selected bed
make_available(b) ==
  /\ IF ActiveOn(allocations, b, 0) = {}
       THEN /\ beds' = [beds EXCEPT ![b].status = "available"]
            /\ last' = Outcome("make_available", "ok", b, 0)
       ELSE /\ last' = Outcome("make_available", "rejected", b, 0)
            /\ UNCHANGED beds
  /\ UNCHANGED <<stockVars, allocations, procs, now, authVars>>

\* ---------------------------------------------------------------------
\* The stock ledger: every operation that records a ledger entry
\* ---------------------------------------------------------------------
NextLedger ==
  \/ \E u \in Users, m \in MedIds, ttype \in TRANSACTION_TYPES, qty \in 0..MaxQty,
        reference \in BOOLEAN :
        TransactionCreate(u, m, ttype, qty, reference, reference)
  \/ \E m \in MedIds, ttype \in TRANSACTION_TYPES, qty \in 0..MaxQty :
        AdminTransactionAdd(m, ttype, qty)
  \/ \E i \in 1..MaxTransactions : AdminTransactionChange(i)
  \/ \E u \in Users, m \in MedIds, input \in NewStockInputs :
        adjust_stock(u, m, input.kind, input.value)

Spec == Init /\ [][NextLedger]_vars

\* ---------------------------------------------------------------------
\* Prescription lines: stock received through the API, deducted by
\* prescribing and restored by removing a line within the grace period
\* ---------------------------------------------------------------------
NextPrescription ==
  \/ \E u \in Users, m \in MedIds, ttype \in TRANSACTION_TYPES, qty \in 0..MaxQty,
        reference \in BOOLEAN :
        TransactionCreate(u, m, ttype, qty, reference, reference)
  \/ \E t \in {1}, m \in MedIds, quantity \in -1..MaxQty : prescribe_medicine(t, m, quantity)
  \/ \E t \in {1}, m \in MedIds : remove_medicine(t, m)
  \/ \E d \in {five_minutes, five_minutes + 1} : Tick(d)

SpecPrescription == Init /\ [][NextPrescription]_vars
\* ---------------------------------------------------------------------
\* The stock-request workflow
\* ---------------------------------------------------------------------
NextRequests ==
  \/ \E u \in Users, m \in MedIds, qty \in 0..MaxQty,
        priority_in \in {"absent", "low"}, status_in \in {"absent", "approved"} :
        submit(u, m, qty, priority_in, status_in)
  \/ \E u \in Users, r \in 1..MaxRequests, expiry \in ExpiryInputs,
        batch_number \in {"", "B1"} :
        approve(u, r, expiry, batch_number)
  \/ \E u \in Users, r \in 1..MaxRequests, reason_in \in {"absent", "out of budget"} :
        reject(u, r, reason_in)
  \/ \E r \in 1..MaxRequests : admin_approve_requests(r)
  \/ \E r \in 1..MaxRequests : admin_mark_as_ordered(r)
  \/ \E r \in 1..MaxRequests, status_in \in STATUS_CHOICES : AdminRequestChange(r, status_in)
  \/ \E u \in Users, r \in 1..MaxRequests, status_in \in STATUS_CHOICES :
        RequestPartialUpdate(u, r, status_in)

SpecRequests == Init /\ [][NextRequests]_vars

\* ---------------------------------------------------------------------
\* Submitting stock requests at varying stock levels: receipts through the
\* API, prescription lines and their removal
\* ---------------------------------------------------------------------
NextSubmit ==
  \/ \E qty \in 1..MaxQty :
        TransactionCreate("pharmacist", 1, "received", qty, TRUE, FALSE)
  \/ \E quantity \in {-1, 1} : prescribe_medicine(1, 1, quantity)
  \/ remove_medicine(1, 1)
  \/ \E u \in Users, priority_in \in {"absent", "low", "medium"} :
        submit(u, 1, 1, priority_in, "absent")

SpecSubmit == Init /\ [][NextSubmit]_vars

\* ---------------------------------------------------------------------
\* Reviewing stock requests: submitting, approving and rejecting through
\* the API
\* ---------------------------------------------------------------------
NextReview ==
  \/ \E u \in Users, qty \in 1..MaxQty, status_in \in {"absent", "approved"} :
        submit(u, 1, qty, "absent", status_in)
  \/ \E u \in Users, r \in 1..MaxRequests, expiry \in ExpiryInputs,
        batch_number \in {"", "B1"} :
        approve(u, r, expiry, batch_number)
  \/ \E u \in Users, r \in 1..MaxRequests, reason_in \in {"absent", "out of budget"} :
        reject(u, r, reason_in)

SpecReview == Init /\ [][NextReview]_vars

\* ---------------------------------------------------------------------
\* Saving medicines: the API create and update, and prescribing, which
\* saves the medicine with the ledger flag for a new line and without it
\* for a line that exists
\* ---------------------------------------------------------------------
NextMedicine ==
  \/ \E u \in Users, stock \in -1..MaxQty, minlvl \in 1..2, expiry \in {NoDate, 2} :
        MedicineCreate(u, stock, minlvl, expiry)
  \/ \E u \in Users, m \in MedIds, stock \in -1..MaxStock, minlvl \in 1..2,
        active \in BOOLEAN, expiry \in {NoDate, 2} :
        MedicineUpdate(u, m, stock, minlvl, active, expiry)
  \/ \E t \in {1}, m \in MedIds, quantity \in 0..MaxQty : prescribe_medicine(t, m, quantity)

SpecMedicine == Init /\ [][NextMedicine]_vars

\* ---------------------------------------------------------------------
\* Beds: every operation that writes a bed or an allocation
\* ---------------------------------------------------------------------
NextBeds ==
  \/ \E u \in BedUsers, b \in BedIds : AllocationCreate(u, b, now, NoDate)
  \/ \E u \in BedUsers, a \in 1..MaxAllocations : discharge(u, a, NoDate)
  \/ \E u \in BedUsers, a \in 1..MaxAllocations, bed_in \in {0} \cup BedIds,
        is_active_in \in {"absent", "true", "false"} :
        AllocationUpdate(u, a, bed_in, is_active_in, NotSent, NotSent)
  \/ \E u \in BedUsers, a \in 1..MaxAllocations : AllocationDestroy(u, a)
  \/ \E u \in BedUsers, b \in BedIds, is_active_in \in BOOLEAN : BedUpdate(u, b, is_active_in)
  \/ \E b \in BedIds : AdminAllocationAdd("doctor", b)
  \/ \E a \in 1..MaxAllocations, is_active_in \in BOOLEAN : AdminAllocationChange(a, is_active_in)
  \/ \E a \in 1..MaxAllocations : discharge_patients(a)
  \/ \E b \in BedIds : make_available(b)

SpecBeds == Init /\ [][NextBeds]_vars

\* ---------------------------------------------------------------------
\* Keeping history: records are created, and medicines and allocations
\* are deleted through the API
\* ---------------------------------------------------------------------
NextHistory ==
  \/ \E u \in Users, qty \in 1..MaxQty :
        TransactionCreate(u, 1, "received", qty, TRUE, FALSE)
  \/ \E u \in Users, qty \in 1..MaxQty : submit(u, 1, qty, "absent", "absent")
  \/ \E quantity \in 1..MaxQty : prescribe_medicine(1, 1, quantity)
  \/ \E u \in Users, m \in MedIds : MedicineDestroy(u, m)
  \/ \E u \in BedUsers, b \in BedIds : AllocationCreate(u, b, now, NoDate)
  \/ \E u \in BedUsers, a \in 1..MaxAllocations : AllocationDestroy(u, a)

SpecHistory == Init /\ [][NextHistory]_vars

\* ---------------------------------------------------------------------
\* Who made an allocation: admissions and discharges by doctors and
\* nurses, accounts deleted by an admin
\* ---------------------------------------------------------------------
NextAttribution ==
  \/ \E u \in {"doctor", "nurse", "student"}, b \in BedIds :
        AllocationCreate(u, b, now, NoDate)
  \/ \E u \in {"doctor", "nurse"}, a \in 1..MaxAllocations : discharge(u, a, NoDate)
  \/ \E u \in {"admin", "nurse"}, target \in {"doctor", "nurse", "student"} :
        UserDestroy(u, target)

SpecAttribution == Init /\ [][NextAttribution]_vars

\* ---------------------------------------------------------------------
\* A patient account (user_type 'student') at the medicine, transaction
\* and stock-request endpoints
\* ---------------------------------------------------------------------
NextPatient ==
  \/ \E stock \in 0..1 : MedicineCreate("student", stock, 1, 2)
  \/ \E m \in MedIds, stock \in 0..1 : MedicineUpdate("student", m, stock, 1, TRUE, 2)
  \/ \E m \in MedIds : MedicineDestroy("student", m)
  \/ \E m \in MedIds, input \in NewStockInputs :
        adjust_stock("student", m, input.kind, input.value)
  \/ \E m \in MedIds, ttype \in TRANSACTION_TYPES, qty \in 1..MaxQty :
        TransactionCreate("student", m, ttype, qty, TRUE, TRUE)
  \/ \E i \in 1..MaxTransactions, qty \in 1..MaxQty :
        TransactionPartialUpdate("student", i, "absent", FALSE, TRUE, qty)
  \/ \E i \in 1..MaxTransactions : TransactionDestroy("student", i)
  \/ \E m \in MedIds, qty \in 0..MaxQty, priority_in \in {"absent", "low"} :
        submit("student", m, qty, priority_in, "absent")
  \/ \E r \in 1..MaxRequests, expiry \in ExpiryInputs, batch_number \in {"", "B1"} :
        approve("student", r, expiry, batch_number)
  \/ \E r \in 1..MaxRequests, reason_in \in {"absent", "out of budget"} :
        reject("student", r, reason_in)
  \/ \E r \in 1..MaxRequests, status_in \in STATUS_CHOICES :
        RequestPartialUpdate("student", r, status_in)

SpecPatient == Init /\ [][NextPatient]_vars

\* ---------------------------------------------------------------------
\* The dates of a stay: admission with dates, updates of either date,
\* extend-stay in the admin, discharge with or without a date
\* ---------------------------------------------------------------------
AdmissionInputs == {MinutesPerDay, 2 * MinutesPerDay}

ExpectedInputs == {NoDate, 0, 2}

NextStay ==
  \/ \E b \in BedIds, admission_date \in AdmissionInputs,
        expected_discharge_date \in ExpectedInputs :
        AllocationCreate("doctor", b, admission_date, expected_discharge_date)
  \/ \E a \in 1..MaxAllocations, admission_in \in {NotSent} \cup AdmissionInputs,
        expected_in \in {NotSent} \cup ExpectedInputs :
        AllocationUpdate("doctor", a, 0, "absent", admission_in, expected_in)
  \/ \E a \in 1..MaxAllocations : extend_stay(a)
  \/ \E a \in 1..MaxAllocations, date_in \in {NoDate, 0} : discharge("doctor", a, date_in)

SpecStay == Init /\ [][NextStay]_vars

\* ---------------------------------------------------------------------
\* Requests in flight.  The project runs with Django's default
\* autocommit and takes no row lock (there is no select_for_update), so
\* each query of a request is a step of its own and the steps of two
\* requests interleave.  A request keeps the model instance it loaded
\* while validating: seen is the value it read then.
\* ---------------------------------------------------------------------
\* ----- two POST /api/bed-allocations/ by doctors -----

\* BedAllocationCreateSerializer.validate: the bed is loaded and checked
AdmitValidate(p, b) ==
  /\ procs[p].pc = "idle"
  /\ IF is_available(beds[b])
       THEN /\ procs' = [procs EXCEPT ![p] = Proc("validated", b, 0, 0, "none")]
            /\ UNCHANGED last
       ELSE /\ procs' = [procs EXCEPT ![p] = Proc("done", b, 0, 0, "rejected")]
            /\ last' = Outcome("allocation_create", "rejected", b, p)
  /\ UNCHANGED <<stockVars, bedVars, now, authVars>>

\* BedAllocationCreateSerializer.create: bed.status = 'occupied'; bed.save()
AdmitMarkOccupied(p) ==
  /\ procs[p].pc = "validated"
  /\ beds' = [beds EXCEPT ![procs[p].target].status = "occupied"]
  /\ procs' = [procs EXCEPT ![p].pc = "marked"]
  /\ UNCHANGED <<stockVars, allocations, now, authVars, last>>

\* BedAllocation.save: full_clean, which runs the exclusivity query
AdmitClean(p) ==
  /\ procs[p].pc = "marked"
  /\ IF clean(allocations, BedAllocation(procs[p].target), 0)
       THEN /\ procs' = [procs EXCEPT ![p].pc = "done", ![p].result = "raised"]
            /\ last' = Outcome("allocation_create", "raised", procs[p].target, p)
       ELSE /\ procs' = [procs EXCEPT ![p].pc = "cleaned"]
            /\ UNCHANGED last
  /\ UNCHANGED <<stockVars, bedVars, now, authVars>>

\* BedAllocation.save: super().save(), the INSERT
AdmitInsert(p) ==
  /\ procs[p].pc = "cleaned"
  /\ allocations' = Append(allocations, BedAllocation(procs[p].target))
  /\ procs' = [procs EXCEPT ![p].pc = "inserted"]
  /\ UNCHANGED <<stockVars, beds, now, authVars, last>>

\* BedAllocation.save: the bed of a new active allocation becomes occupied
AdmitBedStatus(p) ==
  /\ procs[p].pc = "inserted"
  /\ beds' = [beds EXCEPT ![procs[p].target].status = "occupied"]
  /\ procs' = [procs EXCEPT ![p].pc = "done", ![p].result = "ok"]
  /\ last' = Outcome("allocation_create", "ok", procs[p].target, p)
  /\ UNCHANGED <<stockVars, allocations, now, authVars>>

NextAdmit ==
  \/ \E p \in Procs, b \in BedIds : AdmitValidate(p, b)
  \/ \E p \in Procs : AdmitMarkOccupied(p)
  \/ \E p \in Procs : AdmitClean(p)
  \/ \E p \in Procs : AdmitInsert(p)
  \/ \E p \in Procs : AdmitBedStatus(p)

SpecAdmit == Init /\ [][NextAdmit]_vars

\* ----- POST /api/bed-allocations/{id}/discharge/ beside another
\* ----- discharge or an admission -----

\* request.data['actual_discharge_date'] of discharge: absent or a time
DischargeDateInputs == {NoDate, MinutesPerDay - 1}

\* BedAllocationViewSet.discharge: get_object and the is_active check on
\* the instance just loaded; quantity keeps the date sent
DischargeLoad(p, a, date_in) ==
  /\ procs[p].pc = "idle"
  /\ a \in AllocationIds
  /\ allocations[a].exists
  /\ IF allocations[a].is_active
       THEN /\ procs' = [procs EXCEPT ![p] = Proc("loaded", a, date_in, 0, "none")]
            /\ UNCHANGED last
       ELSE /\ procs' = [procs EXCEPT ![p] = Proc("done", a, date_in, 0, "rejected")]
            /\ last' = Outcome("discharge", "rejected", allocations[a].bed, a)
  /\ UNCHANGED <<stockVars, bedVars, now, authVars>>

\* BedDischargeSerializer.update: instance.bed.status = 'available';
\* instance.bed.save()
DischargeFreeBed(p) ==
  /\ procs[p].pc = "loaded"
  /\ beds' = [beds EXCEPT ![allocations[procs[p].target].bed].status = "available"]
  /\ procs' = [procs EXCEPT ![p].pc = "freed"]
  /\ UNCHANGED <<stockVars, allocations, now, authVars, last>>

\* BedAllocation.save: old_instance is read for old_is_active
DischargeReadOld(p) ==
  /\ procs[p].pc = "freed"
  /\ procs' = [procs EXCEPT
        ![p].pc = "old_read",
        ![p].seen = IF allocations[procs[p].target].is_active THEN 1 ELSE 0]
  /\ UNCHANGED <<stockVars, bedVars, now, authVars, last>>

\* BedAllocation.save: full_clean has nothing to query for an inactive
\* row; super().save() is the UPDATE.  The bed status is looked at again
\* only when old_is_active differs from the new is_active.
DischargeSave(p) ==
  /\ procs[p].pc = "old_read"
  /\ LET a == procs[p].target
         date == IF procs[p].quantity = NoDate THEN now ELSE procs[p].quantity
     IN /\ allocations' = [allocations EXCEPT
              ![a].is_active = FALSE,
              ![a].actual_discharge_date = date]
        /\ IF procs[p].seen = 1
             THEN /\ procs' = [procs EXCEPT ![p].pc = "saved"]
                  /\ UNCHANGED last
             ELSE /\ procs' = [procs EXCEPT ![p].pc = "done", ![p].result = "ok"]
                  /\ last' = Outcome("discharge", "ok", allocations[a].bed, a)
  /\ UNCHANGED <<stockVars, beds, now, authVars>>

\* BedAllocation.save: other_active = filter(bed, is_active).exclude(pk).exists()
DischargeOtherActive(p) ==
  /\ procs[p].pc = "saved"
  /\ LET a == procs[p].target
     IN procs' = [procs EXCEPT
          ![p].pc = "queried",
          ![p].seen = IF ActiveOn(allocations, allocations[a].bed, a) # {} THEN 1 ELSE 0]
  /\ UNCHANGED <<stockVars, bedVars, now, authVars, last>>

\* BedAllocation.save: if not other_active, bed.status = 'available';
\* bed.save(update_fields=['status'])
DischargeBedStatus(p) ==
  /\ procs[p].pc = "queried"
  /\ LET a == procs[p].target
         b == allocations[a].bed
     IN /\ beds' = IF procs[p].seen = 0
                     THEN [beds EXCEPT ![b].status = "available"]
                     ELSE beds
        /\ last' = Outcome("discharge", "ok", b, a)
  /\ procs' = [procs EXCEPT ![p].pc = "done", ![p].result = "ok"]
  /\ UNCHANGED <<stockVars, allocations, now, authVars>>

\* one patient is admitted to bed 1
InitDischarge ==
  /\ medicines = [m \in MedIds |->
        IF m = 1
        THEN [exists |-> TRUE, current_stock |-> 0, minimum_stock_level |-> 1,
              expiry_date |-> NoDate, batch_number |-> "", is_active |-> TRUE]
        ELSE NoMedicine]
  /\ transactions = << >>
  /\ stock_requests = << >>
  /\ prescriptions = [k \in Treatments \X MedIds |-> NoPrescription]
  /\ beds = [b \in BedIds |->
        [status |-> IF b = 1 THEN "occupied" ELSE "available", is_active |-> TRUE]]
  /\ now = MinutesPerDay
  /\ allocations = <<BedAllocation(1)>>
  /\ procs = [p \in Procs |-> Idle]
  /\ AuthInit
  /\ last = Outcome("init", "ok", 0, 0)

NextDischarge ==
  \/ \E p \in Procs, a \in 1..MaxAllocations, date_in \in DischargeDateInputs :
        DischargeLoad(p, a, date_in)
  \/ \E p \in Procs : DischargeFreeBed(p)
  \/ \E p \in Procs : DischargeReadOld(p)
  \/ \E p \in Procs : DischargeSave(p)
  \/ \E p \in Procs : DischargeOtherActive(p)
  \/ \E p \in Procs : DischargeBedStatus(p)
  \/ \E p \in Procs, b \in BedIds : AdmitValidate(p, b)
  \/ \E p \in Procs : AdmitMarkOccupied(p)
  \/ \E p \in Procs : AdmitClean(p)
  \/ \E p \in Procs : AdmitInsert(p)
  \/ \E p \in Procs : AdmitBedStatus(p)

SpecDischarge == InitDischarge /\ [][NextDischarge]_vars

\* ----- two POST /api/treatments/{id}/prescribe_medicine/, request p on
\* ----- treatment p, which has no line for the medicine yet -----

\* TreatmentMedicineSerializer.validate: the medicine is loaded and the
\* quantity is compared with the stock just read
IssueValidate(p, m, quantity) ==
  /\ procs[p].pc = "idle"
  /\ medicines[m].exists
  /\ ~prescriptions[<<p, m>>].exists
  /\ IF TreatmentMedicineValidate(medicines[m], quantity)
       THEN /\ procs' = [procs EXCEPT
                  ![p] = Proc("validated", m, quantity, medicines[m].current_stock, "none")]
            /\ UNCHANGED last
       ELSE /\ procs' = [procs EXCEPT
                  ![p] = Proc("done", m, quantity, medicines[m].current_stock, "rejected")]
            /\ last' = Outcome("prescribe_medicine", "rejected", m, quantity)
  /\ UNCHANGED <<medicines, transactions, stock_requests, prescriptions, bedVars, now, authVars>>

\* TreatmentMedicine.save: the check and the decrement on the loaded
\* instance, then medicine.save(skip_stock_validation=True)
IssueDeduct(p) ==
  LET me == procs[p] IN
  /\ me.pc = "validated"
  /\ IF me.seen < me.quantity
       THEN /\ procs' = [procs EXCEPT ![p].pc = "done", ![p].result = "raised"]
            /\ last' = Outcome("prescribe_medicine", "raised", me.target, me.quantity)
            /\ UNCHANGED medicines
       ELSE /\ medicines' = [medicines EXCEPT
                  ![me.target].current_stock = me.seen - me.quantity]
            /\ procs' = [procs EXCEPT ![p].pc = "deducted"]
            /\ UNCHANGED last
  /\ UNCHANGED <<transactions, stock_requests, prescriptions, bedVars, now, authVars>>

\* TreatmentMedicine.save: MedicineTransaction.objects.create('issued')
IssueRecord(p) ==
  LET me == procs[p] IN
  /\ me.pc = "deducted"
  /\ transactions' =
       Append(transactions, MedicineTransaction(me.target, "issued", me.quantity, 0))
  /\ procs' = [procs EXCEPT ![p].pc = "recorded"]
  /\ UNCHANGED <<medicines, stock_requests, prescriptions, bedVars, now, authVars, last>>

\* TreatmentMedicine.save: super().save(), the INSERT of the line
IssueInsertLine(p) ==
  LET me == procs[p] IN
  /\ me.pc = "recorded"
  /\ prescriptions' = [prescriptions EXCEPT ![<<p, me.target>>] =
       [exists |-> TRUE, quantity |-> me.quantity,
        stock_deducted |-> TRUE, created_at |-> now]]
  /\ procs' = [procs EXCEPT ![p].pc = "done", ![p].result = "ok"]
  /\ last' = Outcome("prescribe_medicine", "ok", me.target, me.quantity)
  /\ UNCHANGED <<medicines, transactions, stock_requests, bedVars, now, authVars>>

\* medicine 1 holds stock received through the ledger
InitIssue ==
  \E stock \in 1..MaxStock :
    /\ medicines = [m \in MedIds |->
         IF m = 1
           THEN [exists |-> TRUE, current_stock |-> stock, minimum_stock_level |-> 1,
                 expiry_date |-> NoDate, batch_number |-> "", is_active |-> TRUE]
           ELSE NoMedicine]
    /\ transactions = <<MedicineTransaction(1, "received", stock, 0)>>
    /\ stock_requests = << >>
    /\ prescriptions = [k \in Treatments \X MedIds |-> NoPrescription]
    /\ beds = [b \in BedIds |-> [status |-> "available", is_active |-> TRUE]]
    /\ allocations = << >>
    /\ procs = [p \in Procs |-> Idle]
    /\ now = MinutesPerDay
    /\ AuthInit
    /\ last = Outcome("init", "ok", 0, 0)

NextIssue ==
  \/ \E p \in Procs, quantity \in 1..MaxQty : IssueValidate(p, 1, quantity)
  \/ \E p \in Procs : IssueDeduct(p)
  \/ \E p \in Procs : IssueRecord(p)
  \/ \E p \in Procs : IssueInsertLine(p)

SpecIssue == InitIssue /\ [][NextIssue]_vars

\* ----- two POST /api/stock-requests/{id}/approve/ by pharmacists -----

\* StockRequestViewSet.approve: get_object loads the request together with
\* its medicine (select_related), then the status and the expiry date are
\* checked; seen is the stock just read, quantity the expiry date sent
ApproveLoad(p, r, expiry) ==
  /\ procs[p].pc = "idle"
  /\ r \in RequestIds
  /\ IF ApproveValid("pharmacist", r, expiry)
       THEN /\ procs' = [procs EXCEPT ![p] =
                  Proc("loaded", r, expiry.value,
                       medicines[stock_requests[r].medicine].current_stock, "none")]
            /\ UNCHANGED last
       ELSE /\ procs' = [procs EXCEPT ![p] = Proc("done", r, expiry.value, 0, "rejected")]
            /\ last' = [Outcome("approve", "rejected", stock_requests[r].medicine, r)
                          EXCEPT !.input = expiry]
  /\ UNCHANGED <<stockVars, bedVars, now, authVars>>

\* StockRequestViewSet.approve: stock_request.save() with the new status
ApproveSaveRequest(p) ==
  /\ procs[p].pc = "loaded"
  /\ stock_requests' = [stock_requests EXCEPT
         ![procs[p].target].status = "approved",
         ![procs[p].target].approved_by = "pharmacist",
         ![procs[p].target].approved_date = now]
  /\ procs' = [procs EXCEPT ![p].pc = "request_saved"]
  /\ UNCHANGED <<medicines, transactions, prescriptions, bedVars, now, authVars, last>>

\* StockRequestViewSet.approve: MedicineTransaction.objects.create('received')
ApproveRecord(p) ==
  LET req == stock_requests[procs[p].target] IN
  /\ procs[p].pc = "request_saved"
  /\ transactions' = Append(transactions,
         MedicineTransaction(req.medicine, "received", req.requested_quantity,
                             procs[p].target))
  /\ procs' = [procs EXCEPT ![p].pc = "recorded"]
  /\ UNCHANGED <<medicines, stock_requests, prescriptions, bedVars, now, authVars, last>>

\* StockRequestViewSet.approve: medicine.current_stock += quantity on the
\* instance loaded at the start, then medicine.save(skip_stock_validation=True)
ApproveSaveMedicine(p) ==
  LET req == stock_requests[procs[p].target]
      m == req.medicine
  IN
  /\ procs[p].pc = "recorded"
  /\ medicines' = [medicines EXCEPT
         ![m].current_stock = procs[p].seen + req.requested_quantity,
         ![m].expiry_date = procs[p].quantity]
  /\ procs' = [procs EXCEPT ![p].pc = "done", ![p].result = "ok"]
  /\ last' = Outcome("approve", "ok", m, procs[p].target)
  /\ UNCHANGED <<transactions, stock_requests, prescriptions, bedVars, now, authVars>>

\* one pending request for medicine 1, whose stock is 0
InitApprove ==
  \E quantity \in 1..MaxQty :
    /\ medicines = [m \in MedIds |->
         IF m = 1
           THEN [exists |-> TRUE, current_stock |-> 0, minimum_stock_level |-> 1,
                 expiry_date |-> NoDate, batch_number |-> "", is_active |-> TRUE]
           ELSE NoMedicine]
    /\ transactions = << >>
    /\ stock_requests = <<StockRequest(1, quantity, 0, "urgent", "pending", "pharmacist")>>
    /\ prescriptions = [k \in Treatments \X MedIds |-> NoPrescription]
    /\ beds = [b \in BedIds |-> [status |-> "available", is_active |-> TRUE]]
    /\ allocations = << >>
    /\ procs = [p \in Procs |-> Idle]
    /\ now = MinutesPerDay
    /\ AuthInit
    /\ last = Outcome("init", "ok", 0, 0)

NextApprove ==
  \/ \E p \in Procs, r \in 1..MaxRequests, expiry \in ExpiryInputs : ApproveLoad(p, r, expiry)
  \/ \E p \in Procs : ApproveSaveRequest(p)
  \/ \E p \in Procs : ApproveRecord(p)
  \/ \E p \in Procs : ApproveSaveMedicine(p)

SpecApprove == InitApprove /\ [][NextApprove]_vars

\* ---------------------------------------------------------------------
\* Ledger entries after their creation: the API and the admin routes that
\* address an existing entry
\* ---------------------------------------------------------------------
NextTransactions ==
  \/ \E u \in Users, m \in MedIds, ttype \in TRANSACTION_TYPES, qty \in 0..MaxQty,
        reference \in BOOLEAN :
        TransactionCreate(u, m, ttype, qty, reference, reference)
  \/ \E u \in Users, i \in 1..MaxTransactions,
        ttype_in \in {"absent"} \cup TRANSACTION_TYPES, supplier \in BOOLEAN,
        qty_sent \in BOOLEAN, qty \in 0..MaxQty :
        TransactionPartialUpdate(u, i, ttype_in, supplier, qty_sent, qty)
  \/ \E u \in Users, i \in 1..MaxTransactions : TransactionDestroy(u, i)
  \/ \E i \in 1..MaxTransactions : AdminTransactionChange(i)
  \/ \E i \in 1..MaxTransactions : AdminTransactionDelete(i)

SpecTransactions == Init /\ [][NextTransactions]_vars
\* =====================================================================
\* Properties
\* =====================================================================
RECURSIVE LedgerSum(_, _, _)
LedgerSum(ledger, m, types) ==
  IF ledger = << >> THEN 0
  ELSE LET e == Head(ledger)
       IN (IF e.medicine = m /\ e.transaction_type \in types THEN e.quantity ELSE 0)
            + LedgerSum(Tail(ledger), m, types)

LedgerBalance(m) ==
  Max(0, LedgerSum(transactions, m, {"received"})
           - LedgerSum(transactions, m, {"issued", "expired", "adjustment"}))

Failed(outcome) == outcome.result \in {"rejected", "raised"}

\* C1: the current_stock of every medicine equals max(0, received - issued -
\* expired - adjustment) over its ledger entries, after any sequence of
\* committed operations.
LedgerSumInvariant ==
  \A m \in MedIds :
    medicines[m].exists => medicines[m].current_stock = LedgerBalance(m)

\* C4: no medicine's current_stock is ever below 0, and an issued transaction
\* or prescription line asking for more than the stock available is rejected
\* and not clamped to 0.
DecreasingOps ==
  {"transaction_create_issued", "admin_transaction_add_issued",
   "prescribe_medicine", "prescribe_medicine_update"}

NoNegativeStockNoClamp ==
  /\ [](\A m \in MedIds : medicines[m].current_stock >= 0)
  /\ [][(/\ last'.op \in DecreasingOps
         /\ last'.quantity > medicines[last'.medicine].current_stock)
          => (/\ Failed(last')
              /\ medicines'[last'.medicine].current_stock
                   = medicines[last'.medicine].current_stock)]_vars

\* C5: the status of a stock request changes only along pending -> approved,
\* pending -> rejected, approved -> ordered, approved -> rejected and
\* ordered -> received; received and rejected are never left.
valid_transitions ==
  {<<"pending", "approved">>, <<"pending", "rejected">>,
   <<"approved", "ordered">>, <<"approved", "rejected">>,
   <<"ordered", "received">>}

StatusMovesAlongTable ==
  [][\A r \in RequestIds :
        \/ stock_requests'[r].status = stock_requests[r].status
        \/ <<stock_requests[r].status, stock_requests'[r].status>> \in valid_transitions]_vars

\* C6: approval is all-or-nothing: a request that is approved carries its
\* approver and timestamp and has exactly one received ledger entry for its
\* full quantity, and a pending request has none of these.
ApprovalEntries(r) ==
  {i \in 1..Len(transactions) :
     /\ transactions[i].request = r
     /\ transactions[i].transaction_type = "received"
     /\ transactions[i].medicine = stock_requests[r].medicine
     /\ transactions[i].quantity = stock_requests[r].requested_quantity}

ApprovalAllOrNothing ==
  \A r \in RequestIds :
    /\ stock_requests[r].status = "approved" =>
         /\ stock_requests[r].approved_by # NoUser
         /\ stock_requests[r].approved_date # NoDate
         /\ Cardinality(ApprovalEntries(r)) = 1
         /\ medicines[stock_requests[r].medicine].expiry_date # NoDate
    /\ stock_requests[r].status = "pending" =>
         /\ stock_requests[r].approved_by = NoUser
         /\ stock_requests[r].approved_date = NoDate
         /\ ApprovalEntries(r) = {}

\* C10: saving an existing medicine with a current_stock that differs from
\* the stored one, without the ledger flag, fails and leaves the stored
\* current_stock as it was, whatever other fields the save carries.
DirectSave(before, outcome, line) ==
  \/ /\ outcome.op = "medicine_update"
     /\ outcome.quantity # before.current_stock
  \/ /\ outcome.op = "prescribe_medicine_update"
     /\ line.quantity # 0 \/ outcome.quantity # 0

DirectStockChangeRejected ==
  [][DirectSave(medicines[last'.medicine], last', prescriptions[<<1, last'.medicine>>])
       => (/\ Failed(last')
           /\ medicines'[last'.medicine].current_stock
                = medicines[last'.medicine].current_stock)]_vars

DirectStockChangeWitness ==
  /\ last.op = "medicine_update"
  /\ last.result = "raised"
  /\ last.quantity # medicines[last.medicine].current_stock
  /\ medicines[last.medicine].current_stock > 0

\* C2: a bed has at most one active allocation at any time.
ActiveAllocations(b) == ActiveOn(allocations, b, 0)

AtMostOneActiveAllocation ==
  \A b \in BedIds : Cardinality(ActiveAllocations(b)) <= 1

\* C2 witness: an update that would have put a second active allocation
\* on a bed (a reactivation or a move) was refused by the model's clean.
AtMostOneActiveAllocationWitness ==
  /\ last.op = "allocation_update"
  /\ last.result = "raised"
  /\ last.quantity \in AllocationIds
  /\ ActiveAllocations(last.medicine) # {}
  /\ ~(last.quantity \in ActiveAllocations(last.medicine))

\* C3: a bed's status is occupied exactly when the bed has an active
\* allocation, and available otherwise, after every operation.
BedStatusMirrorsAllocations ==
  \A b \in BedIds :
    beds[b].status = (IF ActiveAllocations(b) # {} THEN "occupied" ELSE "available")

\* C9: a rejected operation leaves every stored entity as it was.
RejectedLeavesStateUnchanged ==
  [][Failed(last') => UNCHANGED <<stockVars, bedVars>>]_vars

\* C7: when two allocation-create requests for the same available bed run
\* concurrently, exactly one of them succeeds and the other is refused.
Finished == \A p \in Procs : procs[p].pc = "done"

Succeeded == {p \in Procs : procs[p].result = "ok"}

ExactlyOneAdmitSucceeds ==
  (Finished /\ procs[1].target = procs[2].target) => Cardinality(Succeeded) = 1

\* C8: when two stock-decreasing requests on the same medicine run
\* concurrently, neither works from a stale current_stock: if both commit,
\* the final stock is the initial stock minus both quantities, and if
\* their combined quantity exceeds the initial stock one is rejected.
InitialStock(m) == LedgerSum(transactions, m, {"received"})

NoStaleStockRead ==
  (Finished /\ procs[1].target = procs[2].target) =>
    LET m == procs[1].target
        total == procs[1].quantity + procs[2].quantity
    IN /\ Succeeded = Procs => medicines[m].current_stock = InitialStock(m) - total
       /\ total > InitialStock(m) => Succeeded # Procs

\* C11: once a MedicineTransaction exists, no operation changes its quantity,
\* transaction_type or medicine, and none deletes it.
TransactionsImmutable ==
  [][/\ Len(transactions') >= Len(transactions)
     /\ \A i \in 1..Len(transactions) :
          /\ transactions'[i].quantity = transactions[i].quantity
          /\ transactions'[i].transaction_type = transactions[i].transaction_type
          /\ transactions'[i].medicine = transactions[i].medicine]_vars

\* C12: every MedicineTransaction that exists has quantity > 0.
TransactionQuantityPositive ==
  \A i \in 1..Len(transactions) : transactions[i].quantity > 0

\* C13: every MedicineTransaction created comes with a change of its
\* medicine's current_stock of +quantity for 'received' and of -quantity,
\* floored at 0, for 'issued', 'expired' and 'adjustment'.  Stated for the
\* entries of quantity 1 or more, which every path is meant to create.
SignedEffect(stock, entry) ==
  IF entry.transaction_type = "received"
    THEN stock + entry.quantity
    ELSE IF stock - entry.quantity < 0 THEN 0 ELSE stock - entry.quantity

EntryComesWithItsStockEffect ==
  [][(/\ Len(transactions') = Len(transactions) + 1
      /\ transactions'[Len(transactions')].quantity >= 1) =>
       LET entry == transactions'[Len(transactions')]
           m == entry.medicine
       IN medicines'[m].current_stock = SignedEffect(medicines[m].current_stock, entry)]_vars

ApproveMustFail(request, expiry) ==
  \/ request.status # "pending"
  \/ expiry.kind = "absent"
  \/ expiry.kind = "date" /\ expiry.value < today

FailedApproveChangesNothing ==
  [][(last'.op = "approve"
        /\ ApproveMustFail(stock_requests[last'.quantity], last'.input)) =>
       /\ Failed(last')
       /\ UNCHANGED <<stock_requests, transactions, medicines>>]_vars

\* C15 witness: a pending request was refused approval for an expiry date
\* in the past and is still pending.
FailedApproveChangesNothingWitness ==
  /\ last.op = "approve"
  /\ last.result = "rejected"
  /\ last.input.kind = "date"
  /\ last.input.value < today
  /\ stock_requests[last.quantity].status = "pending"
  /\ stock_requests[last.quantity].approved_by = NoUser

\* C16: a request created through submit starts in status 'pending' and
\* stores the medicine's current_stock of that moment; the stored snapshot
\* never changes afterwards.
SubmitStartsPendingWithSnapshot ==
  [][/\ (last'.op = "submit" /\ last'.result = "ok") =>
          LET created == stock_requests'[Len(stock_requests')]
          IN /\ Len(stock_requests') = Len(stock_requests) + 1
             /\ created.status = "pending"
             /\ created.current_stock = medicines[last'.medicine].current_stock
     /\ \A r \in RequestIds :
          stock_requests'[r].current_stock = stock_requests[r].current_stock]_vars

\* C18: reject fails unless the request is pending; on success the request
\* is 'rejected' and carries the acting user, the time and the reason; the
\* ledger and the medicines are never touched.
RejectStampsAndLeavesLedger ==
  [][last'.op = "reject" =>
       LET r == last'.quantity
           reason == IF last'.input.kind = "absent"
                     THEN "Request rejected" ELSE last'.input.kind
       IN /\ stock_requests[r].status # "pending" =>
               Failed(last') /\ UNCHANGED stock_requests
          /\ last'.result = "ok" =>
               /\ stock_requests'[r].status = "rejected"
               /\ stock_requests'[r].approved_by = last'.user
               /\ stock_requests'[r].approved_date = now
               /\ stock_requests'[r].notes = reason
          /\ UNCHANGED <<transactions, medicines>>]_vars

\* C18 witness: a request was rejected with a reason and carries it.
RejectStampsAndLeavesLedgerWitness ==
  /\ last.op = "reject"
  /\ last.result = "ok"
  /\ last.input.kind = "out of budget"
  /\ stock_requests[last.quantity].status = "rejected"
  /\ stock_requests[last.quantity].notes = "out of budget"
  /\ stock_requests[last.quantity].approved_by = last.user

DischargeFreesOnlyUnusedBed ==
  [][\A p \in Procs :
       /\ (procs[p].pc = "idle" /\ procs'[p].pc = "done"
             /\ last'.op = "discharge") =>
            (/\ ~allocations[procs'[p].target].is_active
             /\ procs'[p].result = "rejected"
             /\ UNCHANGED bedVars)
       /\ (procs[p].pc \in {"old_read", "queried"} /\ procs'[p].pc = "done") =>
            LET a == procs[p].target
                b == allocations'[a].bed
            IN /\ ~allocations'[a].is_active
               /\ allocations'[a].actual_discharge_date # NoDate
               /\ beds'[b].status = "available" =>
                    ActiveOn(allocations', b, a) = {}]_vars

\* C20: when medical staff set a discharged allocation back to
\* is_active = true, the update is refused and leaves the allocation and
\* the bed unchanged if another active allocation references the bed, and
\* otherwise succeeds and sets the bed's status to 'occupied'.
ReactivationRechecksExclusivity ==
  [][(/\ last'.op = "allocation_update"
      /\ last'.input.kind = "true"
      /\ IsMedicalStaff(last'.user)
      /\ ~allocations[last'.quantity].is_active) =>
       LET a == last'.quantity
           b == last'.medicine
       IN IF ActiveOn(allocations, b, a) # {}
            THEN Failed(last') /\ UNCHANGED bedVars
            ELSE /\ last'.result = "ok"
                 /\ allocations'[a].is_active
                 /\ allocations'[a].bed = b
                 /\ beds'[b].status = "occupied"]_vars

\* C20 witness: the reactivation of a discharged allocation was refused
\* because its bed has another active allocation.
ReactivationRechecksExclusivityWitness ==
  /\ last.op = "allocation_update"
  /\ last.input.kind = "true"
  /\ last.result = "raised"
  /\ last.quantity \in AllocationIds
  /\ ~allocations[last.quantity].is_active
  /\ allocations[last.quantity].actual_discharge_date # NoDate
  /\ ActiveOn(allocations, allocations[last.quantity].bed, last.quantity) # {}

\* C21: every allocation with an expected_discharge_date has it on or
\* after the day of its admission_date.
ExpectedDischargeNotBeforeAdmission ==
  \A a \in AllocationIds :
    (allocations[a].exists /\ allocations[a].expected_discharge_date # NoDate) =>
      allocations[a].expected_discharge_date
        >= allocations[a].admission_date \div MinutesPerDay

\* C22: duration_days of every allocation is never negative.
DurationNeverNegative ==
  \A a \in AllocationIds : allocations[a].exists => duration_days(allocations[a]) >= 0

\* C23: for current_stock >= 0 and minimum_stock_level >= 1 the derived
\* status is 'out_of_stock' at 0, 'low_stock' from 1 up to the minimum
\* level and 'adequate' above it, and each of the three listings selects
\* exactly the medicines with that derived status.
DerivedStatus(current_stock, minimum_stock_level) ==
  IF current_stock = 0 THEN "out_of_stock"
  ELSE IF current_stock <= minimum_stock_level THEN "low_stock"
  ELSE "adequate"

WithStatus(status) ==
  {m \in MedIds : medicines[m].exists /\ stock_status(medicines[m]) = status}

StatusAndListingsAgree ==
  (\A m \in MedIds :
     medicines[m].exists => /\ medicines[m].current_stock >= 0
                            /\ medicines[m].minimum_stock_level >= 1) =>
    /\ \A m \in MedIds :
         medicines[m].exists =>
           stock_status(medicines[m]) =
             DerivedStatus(medicines[m].current_stock, medicines[m].minimum_stock_level)
    /\ \A status \in {"out_of_stock", "low_stock", "adequate"} :
         StockStatusListing(medicines, status) = WithStatus(status)
    /\ low_stock(medicines) =
         {m \in WithStatus("low_stock") : medicines[m].is_active}
    /\ out_of_stock(medicines) =
         {m \in WithStatus("out_of_stock") : medicines[m].is_active}

\* C24: no step hard-deletes a medicine that a ledger entry or a stock
\* request references, and no step removes a ledger entry, a stock request
\* or a bed allocation.
StoredAllocations == {a \in AllocationIds : allocations[a].exists}

HistoryOnlyGrows ==
  [][/\ \A m \in MedIds :
          (/\ medicines[m].exists
           /\ \/ \E i \in 1..Len(transactions) : transactions[i].medicine = m
              \/ \E r \in RequestIds : stock_requests[r].medicine = m)
            => medicines'[m].exists
     /\ Len(transactions') >= Len(transactions)
     /\ Len(stock_requests') >= Len(stock_requests)
     /\ \A a \in StoredAllocations :
          a <= Len(allocations') /\ allocations'[a].exists]_vars

\* C26: every stored allocation names the user who made it, and an attempt
\* to create an allocation by a caller who is no user is rejected and
\* stores nothing.
AllocationsAttributable ==
  /\ [](\A a \in AllocationIds :
          allocations[a].exists => allocations[a].allocated_by # NoUser)
  /\ [][(last'.op = "allocation_create" /\ last'.result = "ok") =>
          /\ Len(allocations') = Len(allocations) + 1
          /\ allocations'[Len(allocations')].allocated_by \in accounts]_vars

\* C27: no request of a user of type 'student' or 'employee' to the
\* medicine, transaction and stock-request endpoints changes the
\* current_stock of a medicine.
PatientsNeverChangeStock ==
  [][\A m \in MedIds :
       medicines'[m].current_stock = medicines[m].current_stock]_vars

\* C28: a stock request is approved at most once: at most one 'received'
\* ledger entry exists for it and the stock of its medicine, 0 at the
\* start, has grown by its requested quantity at most once, also when two
\* approve calls on the pending request interleave.
ReceivedFor(r) ==
  {i \in 1..Len(transactions) :
     transactions[i].request = r /\ transactions[i].transaction_type = "received"}

ApprovedAtMostOnce ==
  \A r \in RequestIds :
    /\ Cardinality(ReceivedFor(r)) <= 1
    /\ medicines[stock_requests[r].medicine].current_stock
         <= stock_requests[r].requested_quantity

\* C29: prescribe_medicine for a medicine already prescribed in the
\* treatment replaces the quantity of the existing line and leaves the
\* stock at its previous value plus the old quantity minus the new one, or
\* is rejected with nothing changed when that stock would be insufficient.
RePrescribeAdjustsStock ==
  [][(/\ last'.op = "prescribe_medicine_update"
      /\ prescriptions[<<1, last'.medicine>>].exists
      /\ prescriptions[<<1, last'.medicine>>].quantity >= 1
      /\ last'.quantity >= 1) =>
       LET m == last'.medicine
           old_quantity == prescriptions[<<1, m>>].quantity
           new_quantity == last'.quantity
           stock == medicines[m].current_stock + old_quantity - new_quantity
       IN IF stock < 0
            THEN /\ Failed(last')
                 /\ UNCHANGED <<medicines, transactions, prescriptions>>
            ELSE /\ last'.result = "ok"
                 /\ prescriptions'[<<1, m>>].quantity = new_quantity
                 /\ medicines'[m].current_stock = stock]_vars

\* ---------------------------------------------------------------------
\* users/security_utils.py and UserViewSet.forgot_password: the counters
\* kept in the Django cache.  Durations are in minutes.
\* ---------------------------------------------------------------------
max_attempts == 5

lockout_duration == 15

otp_max_attempts == 3

time_window == 5

expiry_minutes == 10

Usernames == {"user"}

OtpValues == {1, 2}

login_attempts_key(username) == "login_attempts_user"

\* cache.get: an entry whose timeout has passed is not returned
CacheGet(key) ==
  IF cache[key].present /\ now < cache[key].timeout_at THEN cache[key] ELSE NoEntry

\* cache.set(key, (attempts, expiry_time), timeout=timeout): the timeout
\* starts again at every set
CacheSet(key, attempts, expiry_time, timeout) ==
  [cache EXCEPT ![key] = [present |-> TRUE, attempts |-> attempts,
                          expiry_time |-> expiry_time, timeout_at |-> now + timeout]]

CacheDelete(key) == [cache EXCEPT ![key] = NoEntry]

\* is_allowed of check_rate_limit
check_rate_limit(key, limit) ==
  LET cache_data == CacheGet(key)
  IN IF ~cache_data.present THEN TRUE ELSE ~(cache_data.attempts >= limit)

\* the cache after increment_rate_limit
increment_rate_limit(key, window) ==
  LET cache_data == CacheGet(key)
  IN IF ~cache_data.present
       THEN CacheSet(key, 1, now + window, window)
       ELSE CacheSet(key, cache_data.attempts + 1, cache_data.expiry_time, window)

\* a lockout that starts one failure later
is_locked_after_limit(username) ==
  LET cache_data == CacheGet(login_attempts_key(username))
  IN IF ~cache_data.present THEN FALSE ELSE cache_data.attempts > max_attempts

\* is_locked of check_account_lockout
is_locked(username) ==
  LET cache_data == CacheGet(login_attempts_key(username))
  IN IF ~cache_data.present THEN FALSE ELSE cache_data.attempts >= max_attempts

AuthUnchanged ==
  /\ UNCHANGED <<medicines, transactions, stock_requests, prescriptions>>
  /\ UNCHANGED <<beds, allocations, procs>>

check_account_lockout(username) ==
  /\ last' = Outcome("check_account_lockout",
                     IF is_locked(username) THEN "locked" ELSE "not_locked", 0, 0)
  /\ UNCHANGED <<now, authVars>>
  /\ AuthUnchanged

\* audit.failed_logins counts the calls since the counter was last absent
increment_login_attempts(username) ==
  LET key == login_attempts_key(username)
      cache_data == CacheGet(key)
  IN /\ cache_data.attempts < MaxCalls
     /\ cache' = IF ~cache_data.present
                   THEN CacheSet(key, 1, now + lockout_duration, lockout_duration)
                   ELSE CacheSet(key, cache_data.attempts + 1,
                                 cache_data.expiry_time, lockout_duration)
     /\ audit' = [audit EXCEPT !.failed_logins =
                    IF cache_data.present THEN @ + 1 ELSE 1]
     /\ last' = Outcome("increment_login_attempts", "ok", 0, 0)
     /\ UNCHANGED <<now, accounts>>
     /\ AuthUnchanged

reset_login_attempts(username) ==
  /\ cache' = CacheDelete(login_attempts_key(username))
  /\ audit' = [audit EXCEPT !.failed_logins = 0]
  /\ last' = Outcome("reset_login_attempts", "ok", 0, 0)
  /\ UNCHANGED <<now, accounts>>
  /\ AuthUnchanged

\* time passing for the cache entries
Elapse(d) ==
  /\ now + d <= MinutesPerDay + MaxClock
  /\ now' = now + d
  /\ last' = Outcome("tick", "ok", 0, d)
  /\ UNCHANGED authVars
  /\ AuthUnchanged

\* UserViewSet.forgot_password for a user with a phone and an email; otp is
\* the value generate_otp returns and sent the outcome of send_otp_email.
\* audit.otps_sent counts the OTPs sent since the five-minute window that
\* closes at audit.window_closes opened, audit.otps_stored the store_otp
\* calls.
forgot_password(u, otp, sent) ==
  /\ audit.otps_stored < MaxCalls
  /\ IF u \notin accounts
       THEN /\ last' = [Outcome("forgot_password", "rejected", 0, 0) EXCEPT !.user = u]
            /\ UNCHANGED <<cache, audit>>
     ELSE IF ~check_rate_limit("rate_limit_otp_request_phone", otp_max_attempts)
       THEN /\ last' = [Outcome("forgot_password", "rate_limited", 0, 0) EXCEPT !.user = u]
            /\ UNCHANGED <<cache, audit>>
     ELSE LET stored == [cache EXCEPT !["otp_email"] =
                           [present |-> TRUE, attempts |-> otp, expiry_time |-> 0,
                            timeout_at |-> now + expiry_minutes]]
              counted == [increment_rate_limit("rate_limit_otp_request_email", time_window)
                            EXCEPT !["otp_email"] = stored["otp_email"]]
              open == now < audit.window_closes
          IN IF sent
               THEN /\ cache' = counted
                    /\ audit' = [audit EXCEPT
                         !.otps_stored = @ + 1,
                         !.otps_sent = IF open THEN @ + 1 ELSE 1,
                         !.window_closes = IF open THEN @ ELSE now + time_window]
                    /\ last' = [Outcome("forgot_password", "ok", 0, otp) EXCEPT !.user = u]
               ELSE /\ cache' = stored
                    /\ audit' = [audit EXCEPT !.otps_stored = @ + 1]
                    /\ last' = [Outcome("forgot_password", "failed", 0, otp) EXCEPT !.user = u]
  /\ UNCHANGED <<now, accounts>>
  /\ AuthUnchanged

NextLockout ==
  \/ \E username \in Usernames : check_account_lockout(username)
  \/ \E username \in Usernames : increment_login_attempts(username)
  \/ \E username \in Usernames : reset_login_attempts(username)
  \/ \E d \in {1, lockout_duration} : Elapse(d)

SpecLockout == Init /\ [][NextLockout]_vars

NextOtp ==
  \/ \E otp \in OtpValues, sent \in BOOLEAN : forgot_password("student", otp, sent)
  \/ \E d \in {1, time_window} : Elapse(d)

SpecOtp == Init /\ [][NextOtp]_vars

\* increment_login_attempts calls since the counter of the username was
\* last absent (never set, expired or reset)
CallsSinceAbsent(username) ==
  IF CacheGet(login_attempts_key(username)).present THEN audit.failed_logins ELSE 0

FourthOtpRequestRejected ==
  [][(/\ last'.op = "forgot_password"
      /\ now < audit.window_closes
      /\ audit.otps_sent >= 3) =>
       /\ last'.result = "rate_limited"
       /\ cache'["otp_email"] = cache["otp_email"]
       /\ audit'.otps_stored = audit.otps_stored]_vars

====
